---- MODULE Spec2Model ----
(***************************************************************************)
(* The record store of the Multi-Domain Intelligence Platform:             *)
(* DatabaseManager of src/Database.db/database.py over its SQLite file.    *)
(*                                                                         *)
(* Text is modelled as a sequence of one-character strings, so that the    *)
(* identifier check (replace('_', '').isalnum()) and LIKE are computed     *)
(* character by character, as the code and the store compute them.         *)
(***************************************************************************)
EXTENDS Integers, Sequences, FiniteSets, TLC

VARIABLES
    store,      \* committed contents of the database file: table -> set of rows
    sequence,   \* sqlite_sequence: table -> largest id AUTOINCREMENT has handed out
    clock,      \* the store's CURRENT_TIMESTAMP, in seconds
    last,       \* the public call that ran last: its arguments, its result, the SQL
                \* it issued, whether a store error was logged, the database before it
    connection, \* self.connection: "open" or "closed"
    block,      \* the caller's with-block around the DatabaseManager: where the
                \* caller is, and the exception that left the block with it
    runs,       \* the migrations two further DatabaseManager instances run on the
                \* same database file: where each is in its loop, and its counters
    session_state, \* st.session_state of app.py: the keys it holds and their values
    app         \* the last run of the app.py script: the event it handled, the page
                \* it rendered, and whether it ended in st.rerun()

vars == <<store, sequence, clock, last, connection, block, runs, session_state, app>>

(***************************************************************************)
(* Bounds of the model.                                                    *)
(***************************************************************************)
MaxId == 3          \* AUTOINCREMENT hands out ids 1..MaxId
MaxBatch == 2       \* execute_many is called with at most MaxBatch tuples

(***************************************************************************)
(* Characters and text.                                                    *)
(***************************************************************************)
LowerCase == <<"a","b","c","d","e","f","g","h","i","j","k","l","m",
               "n","o","p","q","r","s","t","u","v","w","x","y","z">>
UpperCase == <<"A","B","C","D","E","F","G","H","I","J","K","L","M",
               "N","O","P","Q","R","S","T","U","V","W","X","Y","Z">>
DigitChars == <<"0","1","2","3","4","5","6","7","8","9">>

Range(f) == {f[i] : i \in DOMAIN f}

Letters == Range(LowerCase) \cup Range(UpperCase)
Digits == Range(DigitChars)

\* str.isalnum(): non-empty and every character a letter or a digit
isalnum(s) == Len(s) > 0 /\ \A i \in 1..Len(s) : s[i] \in Letters \cup Digits

\* str.replace(old, ''): the text without the character old
replace(s, old) == SelectSeq(s, LAMBDA c : c # old)

\* the check with the characters left unexamined: only emptiness is refused
ValidIdentifierNonEmpty(name) == Len(replace(name, "_")) > 0

\* the identifier check every operation repeats on its table or column name
ValidIdentifier(name) == isalnum(replace(name, "_"))

RECURSIVE ParseInt(_)
ParseInt(s) ==
    IF Len(s) = 0 THEN 0
    ELSE 10 * ParseInt(SubSeq(s, 1, Len(s) - 1))
           + (CHOOSE i \in 1..10 : DigitChars[i] = s[Len(s)]) - 1

RECURSIVE Decimal(_)
Decimal(n) ==
    IF n < 10 THEN <<DigitChars[n + 1]>>
    ELSE Decimal(n \div 10) \o <<DigitChars[(n % 10) + 1]>>

\* a text the store converts to an integer: all digits (signs and blanks are
\* outside the inputs of the model)
LooksLikeInteger(s) == Len(s) > 0 /\ \A i \in 1..Len(s) : s[i] \in Digits

(***************************************************************************)
(* Values: Python's None / SQL NULL, integers and text.                    *)
(***************************************************************************)
None == [ty |-> "null", n |-> 0, s |-> <<>>]
Num(k) == [ty |-> "int", n |-> k, s |-> <<>>]
Str(t) == [ty |-> "text", n |-> 0, s |-> t]

\* how the store renders a value as text (CAST AS TEXT, LIKE on a number)
AsText(v) == IF v.ty = "int" THEN Decimal(v.n) ELSE v.s

\* column affinity: what the store keeps when handed v for a column
\* declared TEXT / TIMESTAMP(numeric) / INTEGER / REAL
Affinity(decl, v) ==
    CASE decl = "TEXT" /\ v.ty = "int" -> Str(Decimal(v.n))
      [] decl # "TEXT" /\ v.ty = "text" /\ LooksLikeInteger(v.s) -> Num(ParseInt(v.s))
      [] OTHER -> v

(***************************************************************************)
(* The names of create_tables: tables, columns and the enumerations of the *)
(* CHECK constraints.                                                      *)
(***************************************************************************)
users == <<"u","s","e","r","s">>
cyber_incidents == <<"c","y","b","e","r","_","i","n","c","i","d","e","n","t","s">>
datasets_metadata ==
    <<"d","a","t","a","s","e","t","s","_","m","e","t","a","d","a","t","a">>
it_tickets == <<"i","t","_","t","i","c","k","e","t","s">>
user_activity == <<"u","s","e","r","_","a","c","t","i","v","i","t","y">>
id == <<"i","d">>
username == <<"u","s","e","r","n","a","m","e">>
password_hash == <<"p","a","s","s","w","o","r","d","_","h","a","s","h">>
role == <<"r","o","l","e">>
title == <<"t","i","t","l","e">>
severity == <<"s","e","v","e","r","i","t","y">>
status == <<"s","t","a","t","u","s">>
priority == <<"p","r","i","o","r","i","t","y">>
date_reported == <<"d","a","t","e","_","r","e","p","o","r","t","e","d">>
upload_date == <<"u","p","l","o","a","d","_","d","a","t","e">>
date_created == <<"d","a","t","e","_","c","r","e","a","t","e","d">>
dataset_name == <<"n","a","m","e">>
source_department ==
    <<"s","o","u","r","c","e","_","d","e","p","a","r","t","m","e","n","t">>
user_id == <<"u","s","e","r","_","i","d">>
Low == <<"L","o","w">>
High == <<"H","i","g","h">>
Critical == <<"C","r","i","t","i","c","a","l">>
Open == <<"O","p","e","n">>
Closed == <<"C","l","o","s","e","d">>
New == <<"N","e","w">>
Urgent == <<"U","r","g","e","n","t">>

(***************************************************************************)
(* The schema of create_tables.  A column: its name, declared type,        *)
(* NOT NULL, UNIQUE, the values its CHECK admits ({} when it has none),    *)
(* whether DEFAULT CURRENT_TIMESTAMP fills it, whether DEFAULT 0 fills it, *)
(* and the table it REFERENCES (<<>> when none).  id is INTEGER PRIMARY    *)
(* KEY AUTOINCREMENT in every table.                                       *)
(***************************************************************************)
Column(nm, decl, notnull, unique, check, now, ref) ==
    [name |-> nm, decl |-> decl, notnull |-> notnull, unique |-> unique,
     check |-> check, now |-> now, zero |-> FALSE, ref |-> ref]

Plain(nm, decl) == Column(nm, decl, FALSE, FALSE, {}, FALSE, <<>>)

users_table ==
    << Plain(id, "INTEGER"),
       Column(username, "TEXT", TRUE, TRUE, {}, FALSE, <<>>),
       Column(password_hash, "TEXT", TRUE, FALSE, {}, FALSE, <<>>),
       Column(role, "TEXT", TRUE, FALSE, {}, FALSE, <<>>),
       Column(<<"c","r","e","a","t","e","d","_","a","t">>, "TIMESTAMP",
              FALSE, FALSE, {}, TRUE, <<>>) >>

cyber_incidents_table ==
    << Plain(id, "INTEGER"),
       Column(title, "TEXT", TRUE, FALSE, {}, FALSE, <<>>),
       Plain(<<"d","e","s","c","r","i","p","t","i","o","n">>, "TEXT"),
       Column(severity, "TEXT", FALSE, FALSE,
              {Low, <<"M","e","d","i","u","m">>, High, Critical}, FALSE, <<>>),
       Column(status, "TEXT", FALSE, FALSE,
              {Open, <<"I","n"," ","P","r","o","g","r","e","s","s">>,
               <<"R","e","s","o","l","v","e","d">>, Closed}, FALSE, <<>>),
       Plain(<<"c","a","t","e","g","o","r","y">>, "TEXT"),
       Plain(<<"a","s","s","i","g","n","e","d","_","t","o">>, "TEXT"),
       Column(date_reported, "TIMESTAMP", FALSE, FALSE, {}, TRUE, <<>>),
       Plain(<<"d","a","t","e","_","r","e","s","o","l","v","e","d">>, "TIMESTAMP"),
       Plain(<<"r","e","s","o","l","u","t","i","o","n","_",
               "t","i","m","e","_","h","o","u","r","s">>, "REAL") >>

datasets_metadata_table ==
    << Plain(id, "INTEGER"),
       Column(dataset_name, "TEXT", TRUE, FALSE, {}, FALSE, <<>>),
       Plain(<<"d","e","s","c","r","i","p","t","i","o","n">>, "TEXT"),
       Plain(source_department, "TEXT"),
       Plain(<<"f","i","l","e","_","s","i","z","e","_","m","b">>, "REAL"),
       Plain(<<"r","o","w","_","c","o","u","n","t">>, "INTEGER"),
       Plain(<<"c","o","l","u","m","n","_","c","o","u","n","t">>, "INTEGER"),
       Plain(<<"d","a","t","a","_","q","u","a","l","i","t","y","_",
               "s","c","o","r","e">>, "REAL"),
       Column(upload_date, "TIMESTAMP", FALSE, FALSE, {}, TRUE, <<>>),
       Plain(<<"l","a","s","t","_","a","c","c","e","s","s","e","d">>, "TIMESTAMP"),
       [Plain(<<"i","s","_","a","r","c","h","i","v","e","d">>, "BOOLEAN")
           EXCEPT !.zero = TRUE] >>

it_tickets_table ==
    << Plain(id, "INTEGER"),
       Column(title, "TEXT", TRUE, FALSE, {}, FALSE, <<>>),
       Plain(<<"d","e","s","c","r","i","p","t","i","o","n">>, "TEXT"),
       Plain(<<"a","s","s","i","g","n","e","e">>, "TEXT"),
       Plain(<<"r","e","p","o","r","t","e","r">>, "TEXT"),
       Column(status, "TEXT", FALSE, FALSE,
              {New, <<"A","s","s","i","g","n","e","d">>,
               <<"I","n"," ","P","r","o","g","r","e","s","s">>,
               <<"W","a","i","t","i","n","g"," ","f","o","r"," ","U","s","e","r">>,
               <<"R","e","s","o","l","v","e","d">>, Closed}, FALSE, <<>>),
       Column(priority, "TEXT", FALSE, FALSE,
              {Low, <<"M","e","d","i","u","m">>, High, Urgent}, FALSE, <<>>),
       Plain(<<"c","a","t","e","g","o","r","y">>, "TEXT"),
       Column(date_created, "TIMESTAMP", FALSE, FALSE, {}, TRUE, <<>>),
       Plain(<<"d","a","t","e","_","a","s","s","i","g","n","e","d">>, "TIMESTAMP"),
       Plain(<<"d","a","t","e","_","r","e","s","o","l","v","e","d">>, "TIMESTAMP"),
       Plain(<<"r","e","s","o","l","u","t","i","o","n","_","n","o","t","e","s">>, "TEXT") >>

user_activity_table ==
    << Plain(id, "INTEGER"),
       Column(user_id, "INTEGER", FALSE, FALSE, {}, FALSE, users),
       Plain(username, "TEXT"),
       Plain(<<"a","c","t","i","v","i","t","y","_","t","y","p","e">>, "TEXT"),
       Plain(<<"d","e","s","c","r","i","p","t","i","o","n">>, "TEXT"),
       Column(<<"t","i","m","e","s","t","a","m","p">>, "TIMESTAMP", FALSE, FALSE, {}, TRUE, <<>>) >>

\* the tables of the database file once create_tables has run
tables ==
    [t \in {users, cyber_incidents, datasets_metadata, it_tickets, user_activity} |->
        CASE t = users -> users_table
          [] t = cyber_incidents -> cyber_incidents_table
          [] t = datasets_metadata -> datasets_metadata_table
          [] t = it_tickets -> it_tickets_table
          [] OTHER -> user_activity_table]

ColumnsOf(t) == Range(tables[t])
ColumnNames(t) == {c.name : c \in ColumnsOf(t)}
ColumnNamed(t, nm) == CHOOSE c \in ColumnsOf(t) : c.name = nm

(***************************************************************************)
(* SQL statements.  The text the code builds is kept in its parts: the     *)
(* leading keyword, the table name, the column names of the INSERT list or *)
(* SET clause (each bound to its "?" parameter), the WHERE predicates and  *)
(* LIMIT / OFFSET.  Every name is kept as the characters put into the text.*)
(***************************************************************************)
EmptyDict == [k \in {} |-> None]

\* set binds each column to the position of its parameter; limit and offset are
\* the positions of theirs (0: no such clause)
Statement(verb, what, table, set, where, limit, offset) ==
    [verb |-> verb, what |-> what, table |-> table, set |-> set,
     where |-> where, limit |-> limit, offset |-> offset, order |-> <<>>]

\* the statement with " ORDER BY column DESC" appended
OrderByDesc(query, column) == [query EXCEPT !.order = column]

Predicate(column, op, value) == [column |-> column, op |-> op, value |-> value]

\* every caller-supplied name that is part of the statement's text
IdentifiersIn(stmt) ==
    {stmt.table} \cup DOMAIN stmt.set \cup {stmt.where[i].column : i \in DOMAIN stmt.where}
      \cup (IF stmt.order = <<>> THEN {} ELSE {stmt.order})

\* the number of "?" in the text
Placeholders(query) ==
    Cardinality(DOMAIN query.set) + Len(query.where)
      + (IF query.limit # 0 THEN 1 ELSE 0) + (IF query.offset # 0 THEN 1 ELSE 0)

\* query.strip().upper().startswith('SELECT')
IsSelect(query) == query.verb = "SELECT"

(***************************************************************************)
(* The store: what sqlite3's cursor.execute does with one statement and    *)
(* its parameters on a database db = [store, sequence, clock], under the   *)
(* schema of create_tables and PRAGMA foreign_keys = ON (connect).  The    *)
(* result says whether sqlite3.Error was raised, the database the          *)
(* statement leaves in the open transaction, and the rows fetchall gives.  *)
(***************************************************************************)
Max(a, b) == IF a > b THEN a ELSE b
Min(a, b) == IF a < b THEN a ELSE b

\* a name the SQL grammar reads as one identifier
SqlName(nm) ==
    /\ Len(nm) > 0
    /\ nm[1] \notin Digits
    /\ \A i \in 1..Len(nm) : nm[i] \in Letters \cup Digits \cup {"_"}

\* LIKE folds the case of ASCII letters
Lower(c) ==
    IF \E i \in 1..26 : UpperCase[i] = c
    THEN LowerCase[CHOOSE i \in 1..26 : UpperCase[i] = c]
    ELSE c

\* text LIKE pattern: % matches any run of characters, _ any one character
RECURSIVE Like(_, _)
Like(pattern, text) ==
    IF pattern = <<>> THEN text = <<>>
    ELSE IF Head(pattern) = "%"
         THEN Like(Tail(pattern), text) \/ (text # <<>> /\ Like(pattern, Tail(text)))
         ELSE /\ text # <<>>
              /\ Head(pattern) = "_" \/ Lower(Head(pattern)) = Lower(Head(text))
              /\ Like(Tail(pattern), Tail(text))

\* does the row satisfy "column = ?" / "column LIKE ?" with the parameter bound
Satisfies(t, row, pred, params) ==
    LET v == row[pred.column]
        p == params[pred.value]
    IN  /\ v.ty # "null"
        /\ p.ty # "null"
        /\ IF pred.op = "=" THEN v = Affinity(ColumnNamed(t, pred.column).decl, p)
                            ELSE Like(AsText(p), AsText(v))

Matching(t, rows, query, params) ==
    {r \in rows : \A i \in DOMAIN query.where : Satisfies(t, r, query.where[i], params)}

MaxRowId(rows) ==
    IF rows = {} THEN 0
    ELSE CHOOSE m \in {r[id].n : r \in rows} : \A r \in rows : r[id].n <= m

\* a full scan returns rows in rowid order
RECURSIVE RowidOrder(_)
RowidOrder(rows) ==
    IF rows = {} THEN <<>>
    ELSE LET first == CHOOSE r \in rows : \A q \in rows : r[id].n <= q[id].n
         IN  <<first>> \o RowidOrder(rows \ {first})

\* the characters of the model in the order of their codes
Ascii ==
    <<" ", "#", "%", ",", "-">> \o DigitChars \o <<";">> \o UpperCase \o <<"_">> \o LowerCase

CharCode(c) == CHOOSE i \in 1..Len(Ascii) : Ascii[i] = c

\* text compared as the store's BINARY collation compares it
RECURSIVE TextBefore(_, _)
TextBefore(a, b) ==
    IF b = <<>> THEN FALSE
    ELSE IF a = <<>> THEN TRUE
    ELSE IF Head(a) = Head(b) THEN TextBefore(Tail(a), Tail(b))
    ELSE CharCode(Head(a)) < CharCode(Head(b))

\* the store's sort order of values: NULL, then numbers, then text
Before(v, w) ==
    CASE v.ty = "null" -> w.ty # "null"
      [] v.ty = "int" -> w.ty = "text" \/ (w.ty = "int" /\ v.n < w.n)
      [] OTHER -> w.ty = "text" /\ TextBefore(v.s, w.s)

\* the rows with the ORDER BY clause ignored
InRowidOrder(rows, column) == RowidOrder(rows)

\* ORDER BY column DESC: largest value first, equal values in rowid order
RECURSIVE Descending(_, _)
Descending(rows, column) ==
    IF rows = {} THEN <<>>
    ELSE LET first == CHOOSE r \in rows : \A q \in rows :
                          /\ ~Before(r[column], q[column])
                          /\ r[column] = q[column] => r[id].n <= q[id].n
         IN  <<first>> \o Descending(rows \ {first}, column)

\* the tuple fetchall returns for a row of "SELECT *": the values in column order
AsTuple(t, row) == [i \in 1..Len(tables[t]) |-> row[tables[t][i].name]]

\* NOT NULL, CHECK and the INTEGER PRIMARY KEY's datatype, on one row
RowOk(t, row) ==
    /\ row[id].ty = "int"
    /\ \A c \in ColumnsOf(t) :
          /\ c.notnull => row[c.name].ty # "null"
          /\ c.check # {} =>
                \/ row[c.name].ty = "null"
                \/ row[c.name].ty = "text" /\ row[c.name].s \in c.check

\* a table whose only key is its PRIMARY KEY
PrimaryKeyOnly(t, r1, r2) == r1[id] = r2[id]

\* PRIMARY KEY and UNIQUE: two rows that cannot both be in the table
Conflict(t, r1, r2) ==
    \/ r1[id] = r2[id]
    \/ \E c \in ColumnsOf(t) :
          c.unique /\ r1[c.name].ty # "null" /\ r1[c.name] = r2[c.name]

\* FOREIGN KEY ... REFERENCES: every reference is NULL or names a parent row
ForeignKeysHold(st) ==
    \A t \in DOMAIN tables : \A c \in ColumnsOf(t) :
        c.ref # <<>> =>
            \A r \in st[t] :
                r[c.name].ty = "null" \/ \E parent \in st[c.ref] : parent[id] = r[c.name]

\* a delete that leaves the references to the deleted rows as they are
SetNothing(st, t, deleted) == st

\* ON DELETE SET NULL: the references to the deleted rows of table t become NULL
SetNull(st, t, deleted) ==
    [ct \in DOMAIN st |->
        {[nm \in ColumnNames(ct) |->
             IF /\ ColumnNamed(ct, nm).ref = t
                /\ \E d \in deleted : d[id] = r[nm]
             THEN None ELSE r[nm]] : r \in st[ct]}]

Failure(db) == [error |-> TRUE, store |-> db.store, sequence |-> db.sequence, rows |-> <<>>]

Executed(st, sq, rows) == [error |-> FALSE, store |-> st, sequence |-> sq, rows |-> rows]

\* F applied to the value v, which is worked out once
With(v, F(_)) == F(v)

cursor_select(db, query, params) ==
    LET t == query.table
        found == IF query.order = <<>>
                 THEN RowidOrder(Matching(t, db.store[t], query, params))
                 ELSE Descending(Matching(t, db.store[t], query, params), query.order)
        lim == IF query.limit = 0 THEN Num(-1) ELSE params[query.limit]
        off == IF query.offset = 0 THEN Num(0) ELSE params[query.offset]
        from == Max(off.n, 0)
        most(n) == IF lim.n < 0 THEN n ELSE Min(n, from + lim.n)
        \* what = "1" stands for the text "SELECT 1 FROM t WHERE c = ? LIMIT 1"
        upto(n) == IF query.what = "1" THEN Min(most(n), from + 1) ELSE most(n)
    IN  IF lim.ty # "int" \/ off.ty # "int" THEN Failure(db)
        ELSE With(found, LAMBDA all :
               With(SubSeq(all, from + 1, upto(Len(all))), LAMBDA page :
                 Executed(db.store, db.sequence,
                    IF query.what = "COUNT(*)" THEN << <<Num(Len(page))>> >>
                    ELSE [i \in 1..Len(page) |->
                            CASE query.what = "*" -> AsTuple(t, page[i])
                              [] query.what = "id" -> <<page[i][id]>>
                              [] OTHER -> <<Num(1)>>])))

cursor_insert(db, query, params) ==
    LET t == query.table
        rows == db.store[t]
        given(nm) == Affinity(ColumnNamed(t, nm).decl, params[query.set[nm]])
        auto == Max(db.sequence[t], MaxRowId(rows)) + 1
        filled == [nm \in ColumnNames(t) |->
                     IF nm \in DOMAIN query.set THEN given(nm)
                     ELSE IF ColumnNamed(t, nm).now THEN Str(Decimal(db.clock))
                     ELSE IF ColumnNamed(t, nm).zero THEN Num(0)
                     ELSE None]
        numbered(f) == IF f[id].ty = "null" THEN [f EXCEPT ![id] = Num(auto)] ELSE f
    IN  With(numbered(filled), LAMBDA row :
          With([db.store EXCEPT ![t] = rows \cup {row}], LAMBDA st :
            IF \/ ~RowOk(t, row)
               \/ \E r \in rows : Conflict(t, row, r)
               \/ ~ForeignKeysHold(st)
            THEN Failure(db)
            ELSE Executed(st, [db.sequence EXCEPT ![t] = Max(@, row[id].n)], <<>>)))

cursor_update(db, query, params) ==
    LET t == query.table
        rows == db.store[t]
        new(r) == [nm \in ColumnNames(t) |->
                     IF nm \in DOMAIN query.set
                     THEN Affinity(ColumnNamed(t, nm).decl, params[query.set[nm]])
                     ELSE r[nm]]
    IN  With(Matching(t, rows, query, params), LAMBDA hit :
          With([r \in hit |-> new(r)], LAMBDA changed :
            With([db.store EXCEPT ![t] = (rows \ hit) \cup {changed[r] : r \in hit}],
                 LAMBDA st :
                   IF \/ \E r \in hit : ~RowOk(t, changed[r])
                      \/ \E r \in hit : \E q \in rows \ hit : Conflict(t, changed[r], q)
                      \/ \E r \in hit : \E q \in hit \ {r} :
                            Conflict(t, changed[r], changed[q])
                      \/ ~ForeignKeysHold(st)
                   THEN Failure(db)
                   ELSE Executed(st, db.sequence, <<>>))))

cursor_delete(db, query, params) ==
    LET t == query.table
    IN  With(Matching(t, db.store[t], query, params), LAMBDA hit :
          Executed(SetNull([db.store EXCEPT ![t] = @ \ hit], t, hit), db.sequence, <<>>))

\* PRAGMA table_info(t): one row (cid, name) per column; no row for an unknown table
cursor_pragma(db, query) ==
    Executed(db.store, db.sequence,
         IF query.table \in DOMAIN tables
         THEN [i \in 1..Len(tables[query.table]) |->
                  <<Num(i - 1), Str(tables[query.table][i].name)>>]
         ELSE <<>>)

cursor_execute(db, query, params) ==
    IF db.connection = "closed" THEN Failure(db)
    \* another connection holds the lock on the file until the busy timeout ends
    ELSE IF db.locked THEN Failure(db)
    ELSE IF \/ Len(params) # Placeholders(query)
       \/ \E nm \in IdentifiersIn(query) : ~SqlName(nm)
    THEN Failure(db)
    ELSE IF query.verb = "PRAGMA" THEN cursor_pragma(db, query)
    ELSE IF \/ query.table \notin DOMAIN tables
            \/ \E nm \in IdentifiersIn(query) \ {query.table} :
                  nm \notin ColumnNames(query.table)
    THEN Failure(db)
    ELSE CASE query.verb = "SELECT" -> cursor_select(db, query, params)
           \* CREATE TABLE IF NOT EXISTS on a table that exists does nothing
           [] query.verb = "CREATE" -> Executed(db.store, db.sequence, <<>>)
           [] query.verb = "INSERT" -> cursor_insert(db, query, params)
           [] query.verb = "UPDATE" -> cursor_update(db, query, params)
           [] OTHER -> cursor_delete(db, query, params)

(***************************************************************************)
(* Python values returned to the caller: None, a bool, a list of tuples,   *)
(* one tuple.                                                              *)
(***************************************************************************)
PyNone == [kind |-> "None", b |-> FALSE, rows |-> <<>>]
PyBool(b) == [kind |-> "bool", b |-> b, rows |-> <<>>]
PyList(rows) == [kind |-> "list", b |-> FALSE, rows |-> rows]
PyTuple(row) == [kind |-> "tuple", b |-> FALSE, rows |-> <<row>>]

\* no value: an exception leaves the call
PyRaise == [kind |-> "raise", b |-> FALSE, rows |-> <<>>]

\* what the lines after a call make of its result w, reached only when the call
\* returned
Unraised(v, w) == IF v.kind = "raise" THEN v ELSE w

\* Python's truth value: None, False and the empty list are false
Truthy(v) ==
    CASE v.kind = "None" -> FALSE
      [] v.kind = "bool" -> v.b
      [] v.kind = "list" -> Len(v.rows) > 0
      [] OTHER -> TRUE

\* the keys of a dict in the order the dict yields them; the columns of the
\* statement and the tuple of values are both built in this order
RECURSIVE KeyOrder(_)
KeyOrder(keys) ==
    IF keys = {} THEN <<>>
    ELSE LET k == CHOOSE x \in keys : TRUE IN <<k>> \o KeyOrder(keys \ {k})

(***************************************************************************)
(* DatabaseManager.  A database db is [store, sequence, clock]; a method   *)
(* gives the database it leaves, the value it returns, the statements it   *)
(* handed to the cursor, and whether a store error was caught and logged.  *)
(***************************************************************************)
Outcome(db, ret, sql, error) == [db |-> db, ret |-> ret, sql |-> sql, error |-> error]

\* a return before any statement is built
Refused(db, ret) == Outcome(db, ret, <<>>, FALSE)

\* the database as the open transaction sees it after a statement
Applied(db, r) == [db EXCEPT !.store = r.store, !.sequence = r.sequence]

\* connection.commit(): the open transaction becomes the database
commit(db, r) == Applied(db, r)

\* a rollback that keeps what the open transaction had done
rollback_keeps(db, r) == Applied(db, r)

\* connection.rollback(): the open transaction is dropped
rollback(db, r) == db

\* what the except branch returns: rollback() on a closed connection raises
\* sqlite3.ProgrammingError out of the handler
Handled(db, ret) == IF db.connection = "closed" THEN PyRaise ELSE ret

execute_query(db, query, params) ==
    LET sql == <<[query |-> query, params |-> <<params>>]>>
    IN  With(cursor_execute(db, query, params), LAMBDA r :
            IF r.error THEN Outcome(rollback(db, r), Handled(db, PyNone), sql, TRUE)
            ELSE IF IsSelect(query) THEN Outcome(db, PyList(r.rows), sql, FALSE)
            ELSE Outcome(commit(db, r), PyNone, sql, FALSE))

\* cursor.executemany: only INSERT, UPDATE, DELETE are accepted; the tuples run in
\* order inside one transaction and the first error stops the run
RECURSIVE cursor_executemany(_, _, _)
cursor_executemany(db, query, params_list) ==
    IF db.connection = "closed" THEN Failure(db)
    ELSE IF query.verb \notin {"INSERT", "UPDATE", "DELETE"} THEN Failure(db)
    ELSE IF params_list = <<>> THEN Executed(db.store, db.sequence, <<>>)
    ELSE LET r == cursor_execute(db, query, Head(params_list))
         IN  IF r.error THEN r
             ELSE cursor_executemany(Applied(db, r), query, Tail(params_list))

execute_many(db, query, params_list) ==
    LET sql == <<[query |-> query, params |-> params_list]>>
    IN  With(cursor_executemany(db, query, params_list), LAMBDA r :
            IF r.error THEN Outcome(rollback(db, r), Handled(db, PyBool(FALSE)), sql, TRUE)
            ELSE Outcome(commit(db, r), PyBool(TRUE), sql, FALSE))

\* "result or []"
OrEmptyList(r) == [r EXCEPT !.ret = Unraised(@, IF Truthy(@) THEN @ ELSE PyList(<<>>))]

\* the dict with its None values left in
KeepNone(data) == data

\* {k: v for k, v in data.items() if v is not None}
WithoutNone(data) == [k \in {x \in DOMAIN data : data[x].ty # "null"} |-> data[k]]

\* the positions of the keys in the column list / SET clause
Positions(keys) == [k \in Range(keys) |-> CHOOSE i \in 1..Len(keys) : keys[i] = k]

\* tuple(data.values())
ValuesOf(data, keys) == [i \in 1..Len(keys) |-> data[keys[i]]]

get_all_records(db, table_name) ==
    IF ~ValidIdentifier(table_name) THEN Refused(db, PyList(<<>>))
    ELSE OrEmptyList(execute_query(db,
            Statement("SELECT", "*", table_name, EmptyDict, <<>>, 0, 0), <<>>))

get_records_with_limit(db, table_name, limit, offset) ==
    IF ~ValidIdentifier(table_name) THEN Refused(db, PyList(<<>>))
    ELSE OrEmptyList(execute_query(db,
            Statement("SELECT", "*", table_name, EmptyDict, <<>>, 1, 2), <<limit, offset>>))

insert_record(db, table_name, data) ==
    IF DOMAIN data = {} THEN Refused(db, PyBool(FALSE))
    ELSE IF ~ValidIdentifier(table_name) THEN Refused(db, PyBool(FALSE))
    ELSE LET kept == WithoutNone(data)
             keys == KeyOrder(DOMAIN kept)
             r == execute_query(db,
                     Statement("INSERT", "", table_name, Positions(keys), <<>>, 0, 0),
                     ValuesOf(kept, keys))
         IN  IF DOMAIN kept = {} THEN Refused(db, PyBool(FALSE))
             ELSE [r EXCEPT !.ret = Unraised(@, PyBool(@.kind = "None"))]

\* update_record with the WHERE clause left out of the statement
update_record_everywhere(db, table_name, record_id, data) ==
    IF DOMAIN data = {} THEN Refused(db, PyBool(FALSE))
    ELSE IF ~ValidIdentifier(table_name) THEN Refused(db, PyBool(FALSE))
    ELSE LET kept == WithoutNone(data)
             keys == KeyOrder(DOMAIN kept)
             r == execute_query(db,
                     Statement("UPDATE", "", table_name, Positions(keys), <<>>, 0, 0),
                     ValuesOf(kept, keys))
         IN  IF DOMAIN kept = {} THEN Refused(db, PyBool(FALSE))
             ELSE [r EXCEPT !.ret = Unraised(@, PyBool(@.kind = "None"))]

update_record(db, table_name, record_id, data) ==
    IF DOMAIN data = {} THEN Refused(db, PyBool(FALSE))
    ELSE IF ~ValidIdentifier(table_name) THEN Refused(db, PyBool(FALSE))
    ELSE LET kept == WithoutNone(data)
             keys == KeyOrder(DOMAIN kept)
             r == execute_query(db,
                     Statement("UPDATE", "", table_name, Positions(keys),
                               <<Predicate(id, "=", Len(keys) + 1)>>, 0, 0),
                     ValuesOf(kept, keys) \o <<record_id>>)
         IN  IF DOMAIN kept = {} THEN Refused(db, PyBool(FALSE))
             ELSE [r EXCEPT !.ret = Unraised(@, PyBool(@.kind = "None"))]

\* delete_record with the WHERE clause left out of the statement
delete_record_everywhere(db, table_name, record_id) ==
    IF ~ValidIdentifier(table_name) THEN Refused(db, PyBool(FALSE))
    ELSE LET r == execute_query(db,
                     Statement("DELETE", "", table_name, EmptyDict, <<>>, 0, 0), <<>>)
         IN  [r EXCEPT !.ret = Unraised(@, PyBool(@.kind = "None"))]

delete_record(db, table_name, record_id) ==
    IF ~ValidIdentifier(table_name) THEN Refused(db, PyBool(FALSE))
    ELSE LET r == execute_query(db,
                     Statement("DELETE", "", table_name, EmptyDict,
                               <<Predicate(id, "=", 1)>>, 0, 0),
                     <<record_id>>)
         IN  [r EXCEPT !.ret = Unraised(@, PyBool(@.kind = "None"))]

get_record_by_id(db, table_name, record_id) ==
    IF ~ValidIdentifier(table_name) THEN Refused(db, PyNone)
    ELSE LET r == execute_query(db,
                     Statement("SELECT", "*", table_name, EmptyDict,
                               <<Predicate(id, "=", 1)>>, 0, 0),
                     <<record_id>>)
         IN  [r EXCEPT !.ret = Unraised(@, IF Truthy(@) THEN PyTuple(@.rows[1]) ELSE PyNone)]

search_records(db, table_name, search_column, search_value) ==
    IF ~ValidIdentifier(table_name) THEN Refused(db, PyList(<<>>))
    ELSE IF ~ValidIdentifier(search_column) THEN Refused(db, PyList(<<>>))
    ELSE OrEmptyList(execute_query(db,
            Statement("SELECT", "*", table_name, EmptyDict,
                      <<Predicate(search_column, "LIKE", 1)>>, 0, 0),
            <<Str(<<"%">> \o AsText(search_value) \o <<"%">>)>>))

\* the filters with no key examined
AllKeys(filters) == KeyOrder(DOMAIN filters)

\* the filters whose key passes the identifier check, in the order of the dict
ValidKeys(filters) == KeyOrder({k \in DOMAIN filters : ValidIdentifier(k)})

get_cyber_incidents(db, filters) ==
    LET keys == ValidKeys(filters)
    IN  OrEmptyList(execute_query(db,
            OrderByDesc(Statement("SELECT", "*", cyber_incidents, EmptyDict,
                                  [i \in 1..Len(keys) |-> Predicate(keys[i], "=", i)], 0, 0),
                        date_reported),
            ValuesOf(filters, keys)))

\* "for key, value in filters.items()": every key of the filters, in the order of
\* the dict
items(filters) == KeyOrder(DOMAIN filters)

\* the views of database_manager.py and CRUD_operations.py: the keys of the filters
\* go into the WHERE clause as they are given.  execute_query of
\* database_manager.py is execute_query of database.py with print for the logger
get_datasets(db, filters) ==
    LET keys == items(filters)
    IN  OrEmptyList(execute_query(db,
            OrderByDesc(Statement("SELECT", "*", datasets_metadata, EmptyDict,
                                  [i \in 1..Len(keys) |-> Predicate(keys[i], "=", i)], 0, 0),
                        upload_date),
            ValuesOf(filters, keys)))

get_it_tickets(db, filters) ==
    LET keys == items(filters)
    IN  OrEmptyList(execute_query(db,
            OrderByDesc(Statement("SELECT", "*", it_tickets, EmptyDict,
                                  [i \in 1..Len(keys) |-> Predicate(keys[i], "=", i)], 0, 0),
                        date_created),
            ValuesOf(filters, keys)))

get_table_columns(db, table_name) ==
    IF ~ValidIdentifier(table_name) THEN Refused(db, PyList(<<>>))
    ELSE LET r == execute_query(db,
                     Statement("PRAGMA", "table_info", table_name, EmptyDict, <<>>, 0, 0),
                     <<>>)
         IN  [r EXCEPT !.ret = Unraised(@,
                                   IF Truthy(@)
                                   THEN PyList([i \in 1..Len(@.rows) |-> @.rows[i][2]])
                                   ELSE PyList(<<>>))]

record_exists(db, table_name, column, value) ==
    IF ~ValidIdentifier(table_name) THEN Refused(db, PyBool(FALSE))
    ELSE IF ~ValidIdentifier(column) THEN Refused(db, PyBool(FALSE))
    ELSE LET r == execute_query(db,
                     Statement("SELECT", "1", table_name, EmptyDict,
                               <<Predicate(column, "=", 1)>>, 0, 0),
                     <<value>>)
         IN  [r EXCEPT !.ret = Unraised(@, PyBool(Truthy(@)))]

log_user_activity(db, uid, uname, activity_type, description) ==
    insert_record(db, user_activity,
        [c \in {user_id, username, <<"a","c","t","i","v","i","t","y","_","t","y","p","e">>,
                <<"d","e","s","c","r","i","p","t","i","o","n">>} |->
            CASE c = user_id -> uid
              [] c = username -> uname
              [] c = <<"a","c","t","i","v","i","t","y","_","t","y","p","e">> -> activity_type
              [] OTHER -> description])

\* a dict returned to the caller: its items, key and value, in the order they
\* were set
PyDict(pairs) == [kind |-> "dict", b |-> FALSE, rows |-> pairs]

\* the tables get_database_stats counts
StatsTables == <<users, cyber_incidents, datasets_metadata, it_tickets, user_activity>>

\* an entry only for a count that is not zero
stats_entry_nonzero(stats, table, result) ==
    IF Truthy(result) /\ result.rows[1][1] # Num(0)
    THEN Append(stats, <<Str(table), result.rows[1][1]>>)
    ELSE stats

\* "if result: stats[table] = result[0][0]"
stats_entry(stats, table, result) ==
    IF Truthy(result) THEN Append(stats, <<Str(table), result.rows[1][1]>>) ELSE stats

\* get_database_stats: the loop over the tables, from the stats gathered so far;
\* an exception of execute_query ends it
RECURSIVE count_tables(_, _)
count_tables(so_far, todo) ==
    IF todo = <<>> \/ so_far.ret.kind = "raise" THEN so_far
    ELSE With(execute_query(so_far.db,
                  Statement("SELECT", "COUNT(*)", Head(todo), EmptyDict, <<>>, 0, 0), <<>>),
              LAMBDA result :
                  count_tables(
                      Outcome(result.db,
                              Unraised(result.ret,
                                       PyDict(stats_entry(so_far.ret.rows, Head(todo),
                                                          result.ret))),
                              so_far.sql \o result.sql, so_far.error \/ result.error),
                      Tail(todo)))

get_database_stats(db) == count_tables(Outcome(db, PyDict(<<>>), <<>>, FALSE), StatsTables)

\* the tables create_tables of database_manager.py makes
CreatedTables == <<users, cyber_incidents, datasets_metadata, it_tickets>>

\* create_tables of database_manager.py: the loop over the CREATE TABLE IF NOT
\* EXISTS statements, from the outcome so far; "if result is None: continue /
\* else: success = False"
RECURSIVE create_each(_, _)
create_each(so_far, todo) ==
    IF todo = <<>> \/ so_far.ret.kind = "raise" THEN so_far
    ELSE With(execute_query(so_far.db,
                  Statement("CREATE", "IF NOT EXISTS", Head(todo), EmptyDict, <<>>, 0, 0),
                  <<>>),
              LAMBDA result :
                  create_each(
                      Outcome(result.db,
                              Unraised(result.ret,
                                       IF result.ret.kind = "None" THEN so_far.ret
                                       ELSE PyBool(FALSE)),
                              so_far.sql \o result.sql, so_far.error \/ result.error),
                      Tail(todo)))

create_tables(db) == create_each(Outcome(db, PyBool(TRUE), <<>>, FALSE), CreatedTables)

\* a close() that refuses a connection already closed
close_once(db) ==
    IF db.connection = "closed" THEN Outcome(db, PyRaise, <<>>, FALSE)
    ELSE Outcome([db EXCEPT !.connection = "closed"], PyNone, <<>>, FALSE)

\* self.connection is the Connection object from connect() on, so the test
\* "if self.connection" passes; sqlite3's Connection.close() on a closed
\* connection does nothing
close(db) == Outcome([db EXCEPT !.connection = "closed"], PyNone, <<>>, FALSE)

\* the DatabaseManager itself, as __enter__ returns it
PySelf == [kind |-> "self", b |-> FALSE, rows |-> <<>>]

enter(db) == Outcome(db, PySelf, <<>>, FALSE)

\* an __exit__ that leaves the connection as it is
exit_without_close(db) == Outcome(db, PyNone, <<>>, FALSE)

\* __exit__ calls close() and returns nothing
exit(db) == [close(db) EXCEPT !.ret = Unraised(@, PyNone)]

\* the with statement: the exception of the body goes on to the caller unless
\* __exit__ returned a true value; an exception of __exit__ itself goes on
Leaving(exception, ret) ==
    IF ret.kind = "raise" THEN "ProgrammingError"
    ELSE IF Truthy(ret) THEN ""
    ELSE exception

(***************************************************************************)
(* The inputs the operations are called with.                              *)
(***************************************************************************)
\* marks a key the dict does not have
Absent == [ty |-> "absent", n |-> 0, s |-> <<>>]

Dict(choice) == [k \in {x \in DOMAIN choice : choice[x] # Absent} |-> choice[k]]

\* names that are no table or column: well-formed ones (nosuch, nocol) and ones
\* the identifier check refuses
nosuch == <<"n","o","s","u","c","h">>
nocol == <<"n","o","c","o","l">>
UsersSemicolon == <<"u","s","e","r","s",";">>
TwoWords == <<"a"," ","b">>
Underscore == <<"_">>

\* sample values: two usernames, two password hashes (one handed over as an
\* integer), a role
alice == Str(<<"a">>)
bob == Str(<<"b">>)
hash1 == Str(<<"h">>)
hash7 == Num(7)
analyst == Str(<<"r">>)

\* a users row as a dict: username, password_hash, role and, unless Absent, id
UserDict(i, u, p, r) ==
    Dict([c \in {id, username, password_hash, role} |->
            CASE c = id -> i [] c = username -> u [] c = password_hash -> p [] OTHER -> r])

\* one key and its value
Single(k, v) == [c \in {k} |-> v]

RecordIds == {Num(k) : k \in 1..MaxId}

\* the dicts insert_record is given for the users table: whole users, with and
\* without an id; a user lacking NOT NULL columns; one with a key that is no
\* identifier; one dict whose values are all None
UserInserts ==
    {UserDict(Absent, u, p, analyst) : u \in {alice, bob}, p \in {hash1, hash7}}
    \cup {UserDict(i, alice, hash1, analyst) : i \in RecordIds}
    \cup {Single(username, alice), Single(role, None), EmptyDict,
          [c \in {TwoWords, username, password_hash, role} |->
              CASE c = TwoWords -> alice [] c = username -> bob
                [] c = password_hash -> hash1 [] OTHER -> analyst]}

\* the dicts update_record is given for the users table
UserUpdates ==
    {Single(id, i) : i \in RecordIds}
    \cup {Single(username, u) : u \in {alice, bob}}
    \cup {Single(password_hash, p) : p \in {hash1, hash7}}
    \cup {Single(role, None), Single(TwoWords, alice), Single(nocol, alice), EmptyDict,
          UserDict(Absent, bob, hash7, None)}

\* calls on the users table
UserInputs ==
    [table_names |-> {users},
     inserts |-> [t \in {users} |-> UserInserts],
     updates |-> [t \in {users} |-> UserUpdates],
     record_ids |-> RecordIds,
     lookup_ids |-> RecordIds \cup {Str(<<"1">>)},
     columns |-> {username},
     values |-> {alice}]

\* calls with every kind of table and column name
NameInputs ==
    [table_names |-> {users, nosuch, UsersSemicolon, Underscore},
     inserts |-> [t \in {users, nosuch, UsersSemicolon, Underscore} |->
                    {EmptyDict, Single(role, None), UserDict(Absent, alice, hash1, analyst)}],
     updates |-> [t \in {users, nosuch, UsersSemicolon, Underscore} |->
                    {EmptyDict, Single(role, None), Single(password_hash, hash7)}],
     record_ids |-> {Num(1)},
     lookup_ids |-> {Num(1)},
     columns |-> {username, nocol, TwoWords},
     values |-> {alice}]

\* calls on the two tables whose columns carry CHECK enumerations
titleX == Str(<<"X">>)
Extreme == <<"E","x","t","r","e","m","e">>

Incident(sev, st) ==
    [c \in {title, severity, status} |->
        CASE c = title -> titleX [] c = severity -> Str(sev) [] OTHER -> Str(st)]

Ticket(st, pr) ==
    [c \in {title, status, priority} |->
        CASE c = title -> titleX [] c = status -> Str(st) [] OTHER -> Str(pr)]

EnumInputs ==
    [table_names |-> {cyber_incidents, it_tickets},
     inserts |-> [t \in {cyber_incidents, it_tickets} |->
                    IF t = cyber_incidents
                    THEN {Incident(High, Open), Incident(Extreme, Open),
                          Incident(Urgent, Open), Incident(High, New)}
                    ELSE {Ticket(New, Urgent), Ticket(New, Critical), Ticket(Open, Urgent)}],
     updates |-> [t \in {cyber_incidents, it_tickets} |->
                    IF t = cyber_incidents
                    THEN {Single(severity, Str(Low)), Single(severity, Str(Extreme)),
                          Single(status, Str(New))}
                    ELSE {Single(status, Str(Closed)), Single(status, Str(Open)),
                          Single(priority, Str(Critical))}],
     record_ids |-> RecordIds,
     lookup_ids |-> RecordIds,
     columns |-> {title},
     values |-> {titleX}]

\* calls of the incident view: incidents reported on two days or stamped by the
\* store, and filters with keys that are columns, that are no column, and that are
\* no identifier
Phishing == Str(<<"P","h","i","s","h","i","n","g">>)
day1 == Str(<<"1","-","1">>)
day2 == Str(<<"1","-","2">>)

Report(ttl, st, day) ==
    Dict([c \in {title, severity, status, date_reported} |->
            CASE c = title -> ttl [] c = severity -> Str(High) [] c = status -> Str(st)
              [] OTHER -> day])

Filters ==
    {EmptyDict, Single(status, Str(Open)), Single(TwoWords, Str(Open)),
     Single(nocol, Str(Open)),
     [k \in {status, TwoWords} |-> IF k = status THEN Str(Open) ELSE titleX],
     [k \in {status, severity} |-> IF k = status THEN Str(Closed) ELSE Str(High)]}

ViewInputs ==
    [table_names |-> {cyber_incidents},
     inserts |-> [t \in {cyber_incidents} |->
                    {Report(Phishing, Open, Absent), Report(Phishing, Open, day2),
                     Report(titleX, Open, day1), Report(titleX, Closed, day1),
                     Report(titleX, Closed, Absent)}],
     filters |-> Filters]

\* calls of search_records: usernames with and without the characters LIKE reads
\* as wildcards, and searches for a letter, in either case, and for "%", "_", "a%b"
axb == Str(<<"a", "x", "b">>)
apb == Str(<<"a", "%", "b">>)

SearchInputs ==
    [table_names |-> {users},
     inserts |-> [t \in {users} |->
                    {UserDict(Absent, u, hash1, analyst) : u \in {alice, axb, apb}}],
     columns |-> {username},
     values |-> {alice, Str(<<"A">>), Str(<<"x">>), Str(<<"%">>), Str(<<"_">>), apb}]

\* calls of the ticket and dataset views: tickets and datasets made on two days,
\* and filters with keys that are columns and keys that are no identifier
Sales == Str(<<"S","a","l","e","s">>)

Opened(st, day) ==
    [c \in {title, status, date_created} |->
        CASE c = title -> titleX [] c = status -> Str(st) [] OTHER -> day]

Uploaded(day) ==
    [c \in {dataset_name, source_department, upload_date} |->
        CASE c = dataset_name -> titleX [] c = source_department -> Sales [] OTHER -> day]

DomainInputs ==
    [table_names |-> {it_tickets, datasets_metadata},
     inserts |-> [t \in {it_tickets, datasets_metadata} |->
                    IF t = it_tickets
                    THEN {Opened(New, day1), Opened(New, day2), Opened(Closed, day2)}
                    ELSE {Uploaded(day1), Uploaded(day2)}],
     ticket_filters |-> {EmptyDict, Single(status, Str(New)), Single(TwoWords, Str(New)),
                         [k \in {status, TwoWords} |-> Str(New)]},
     dataset_filters |-> {EmptyDict, Single(source_department, Sales),
                          Single(TwoWords, Sales)}]

\* calls on users and on the activity log that refers to them
ActivityInputs ==
    [table_names |-> {users, user_activity},
     inserts |-> [t \in {users, user_activity} |->
                    IF t = users
                    THEN {UserDict(Absent, u, hash1, analyst) : u \in {alice, bob}}
                    ELSE {}],
     updates |-> [t \in {users, user_activity} |->
                    IF t = users THEN {Single(id, Num(MaxId))}
                    ELSE {Single(user_id, Num(2))}],
     record_ids |-> {Num(1)},
     lookup_ids |-> {Num(1), Num(2)},
     user_ids |-> {None, Num(1), Num(2)}]

\* inserts and renames of the users the migrated files name
RaceInputs ==
    [table_names |-> {users},
     inserts |-> [t \in {users} |->
                    {UserDict(Absent, u, hash1, analyst) : u \in {alice, bob}}],
     updates |-> [t \in {users} |-> {Single(username, bob)}],
     record_ids |-> {Num(1)}]

\* calls made while the connection is opened and closed
LifeInputs ==
    [table_names |-> {users, UsersSemicolon},
     inserts |-> [t \in {users, UsersSemicolon} |->
                    {EmptyDict, UserDict(Absent, alice, hash1, analyst)}],
     updates |-> [t \in {users, UsersSemicolon} |-> {Single(role, analyst)}],
     record_ids |-> {Num(1)},
     lookup_ids |-> {Num(1)},
     columns |-> {username},
     values |-> {alice},
     filters |-> {Single(status, Str(Open))}]

\* the statements and parameter tuples execute_query and execute_many are given
InsertUser(table_name) ==
    Statement("INSERT", "", table_name,
              Positions(<<username, password_hash, role>>), <<>>, 0, 0)

SelectAll(table_name) == Statement("SELECT", "*", table_name, EmptyDict, <<>>, 0, 0)

DeleteById(table_name) ==
    Statement("DELETE", "", table_name, EmptyDict, <<Predicate(id, "=", 1)>>, 0, 0)

UserTuples == {<<u, hash1, analyst>> : u \in {None, alice, bob}}

Queries ==
    {<<InsertUser(t), ps>> : t \in {users, nosuch}, ps \in UserTuples \cup {<<alice>>}}
    \cup {<<SelectAll(t), <<>> >> : t \in {users, nosuch}}
    \cup {<<DeleteById(users), <<i>> >> : i \in RecordIds}

RECURSIVE ListsUpTo(_, _)
ListsUpTo(S, n) ==
    IF n = 0 THEN {<<>>}
    ELSE ListsUpTo(S, n - 1) \cup {Append(l, x) : l \in ListsUpTo(S, n - 1), x \in S}

Batches ==
    {<<InsertUser(users), l>> : l \in ListsUpTo(UserTuples, MaxBatch)}
    \cup {<<SelectAll(users), << <<>> >> >>}

\* the users files handed to the migration: lines "username,password_hash,role",
\* with blanks around the fields, with a fourth field, with too few fields,
\* comment lines, blank lines, the same user twice, no line, and no file
UserLine(name) == <<name, ",", "h", ",", "r", "\n">>

File(lines) == [exists |-> TRUE, lines |-> lines]

WellFormedFiles ==
    {File(<<UserLine("a")>>),
     File(<<UserLine("a"), UserLine("b")>>),
     File(<<UserLine("b"), UserLine("a")>>),
     File(<<UserLine("a"), <<" ", "b", " ", ",", " ", "h", ",", "r", " ", "\n">> >>),
     File(<<  <<"b", ",", "h", ",", "r", ",", "x", "\n">>, UserLine("a")>>)}

Files ==
    WellFormedFiles
    \cup {File(<<  <<"b", ",", "h", "\n">>, UserLine("a")>>),
          File(<<UserLine("a"), <<"x", "\n">>, UserLine("b")>>),
          File(<<  <<"#", "c", "\n">>, UserLine("a")>>),
          File(<<  <<"#", "b", ",", "h", ",", "r", "\n">>, UserLine("a")>>),
          File(<<  <<"\n">>, UserLine("a"), <<" ", " ", "\n">> >>),
          File(<<UserLine("a"), UserLine("a")>>),
          File(<<>>),
          [exists |-> FALSE, lines |-> <<>>]}

(***************************************************************************)
(* User migration: migrate_users_from_file of user_service.py, which        *)
(* returns three counts, and the method of the same name of                *)
(* DatabaseManager, which returns the number of users it migrated.  A file *)
(* is the lines readlines() gives, each with its line end; a path with no  *)
(* file has exists = FALSE.                                                *)
(***************************************************************************)
\* str.strip(): blanks and line ends removed from both ends
strip(s) ==
    LET kept == {i \in 1..Len(s) : s[i] \notin {" ", "\n"}}
    IN  IF kept = {} THEN <<>>
        ELSE SubSeq(s, CHOOSE i \in kept : \A j \in kept : i <= j,
                       CHOOSE i \in kept : \A j \in kept : i >= j)

\* str.split(sep)
RECURSIVE split(_, _)
split(s, sep) ==
    IF \A i \in 1..Len(s) : s[i] # sep THEN <<s>>
    ELSE LET at == CHOOSE i \in 1..Len(s) : s[i] = sep /\ \A j \in 1..(i - 1) : s[j] # sep
         IN  <<SubSeq(s, 1, at - 1)>> \o split(SubSeq(s, at + 1, Len(s)), sep)

\* the three fields of a line, each stripped
Fields(parts) == [i \in 1..3 |-> Str(strip(parts[i]))]

\* a look-up that matches no user
no_existing_user(db, name) ==
    execute_query(db, Statement("SELECT", "id", users, EmptyDict,
                                <<Predicate(username, "=", 1)>>, 0, 0), <<None>>)

\* "SELECT id FROM users WHERE username = ?"
existing_user(db, name) ==
    execute_query(db, Statement("SELECT", "id", users, EmptyDict,
                                <<Predicate(username, "=", 1)>>, 0, 0), <<name>>)

\* the run so far: the database, the counters, the statements issued, whether a
\* store error was logged and whether an exception ended the loop
Progress(db) ==
    [db |-> db, success |-> 0, error |-> 0, total |-> 0, sql |-> <<>>,
     logged |-> FALSE, raised |-> FALSE]

\* a call of the record store made by the loop
After(m, r) ==
    [m EXCEPT !.db = r.db, !.sql = @ \o r.sql, !.logged = @ \/ r.error,
              !.raised = r.ret.kind = "raise"]

\* success_count += 1 / error_count += 1
Succeeded(m) == [m EXCEPT !.success = @ + 1]
Errored(m) == [m EXCEPT !.error = @ + 1]

\* a turn of the loop that ends at the existence check, and one that goes on
\* to insert the fields of its line
Turned(m) == [m |-> m, fields |-> <<>>]
Inserting(m, fields) == [m |-> m, fields |-> fields]

\* user_service: a turn of the loop up to the existence check
user_check(m, line) ==
    LET parts == split(strip(line), ",")
        seen == [m EXCEPT !.total = @ + 1]
    IN  IF strip(line) = <<>> THEN Turned(m)
        ELSE IF Len(parts) < 3 THEN Turned(Errored(seen))
        ELSE With(existing_user(m.db, Fields(parts)[1]), LAMBDA existing :
                IF existing.ret.kind = "raise" THEN Turned(After(seen, existing))
                ELSE IF Truthy(existing.ret) THEN Turned(Errored(After(seen, existing)))
                ELSE Inserting(After(seen, existing), Fields(parts)))

\* user_service: the insert of a user the check did not find; a result of None
\* is counted as a success
user_insert(m, fields) ==
    With(execute_query(m.db, InsertUser(users), fields), LAMBDA result :
        IF result.ret.kind = "raise" THEN After(m, result)
        ELSE IF result.ret.kind = "None" THEN Succeeded(After(m, result))
        ELSE Errored(After(m, result)))

\* user_service: one turn of the loop over the lines
user_line(m, line) ==
    With(user_check(m, line), LAMBDA turn :
        IF turn.fields = <<>> THEN turn.m ELSE user_insert(turn.m, turn.fields))

RECURSIVE user_lines(_, _)
user_lines(m, lines) ==
    IF lines = <<>> \/ m.raised THEN m
    ELSE user_lines(user_line(m, Head(lines)), Tail(lines))

\* the result for a path with no file, given as an exception
file_not_found_raises(db) == Outcome(db, PyRaise, <<>>, FALSE)

\* "return 0, 0, 0"
file_not_found(db) == Outcome(db, PyTuple(<<Num(0), Num(0), Num(0)>>), <<>>, FALSE)

\* user_service.migrate_users_from_file(db_manager, file_path); "except Exception"
\* returns the counts reached when the exception came
migrate_users_from_file(db, file) ==
    IF ~file.exists THEN file_not_found(db)
    ELSE With(user_lines(Progress(db), file.lines), LAMBDA m :
            Outcome(m.db, PyTuple(<<Num(m.success), Num(m.error), Num(m.total)>>),
                    m.sql, m.logged))

\* an int, as DatabaseManager.migrate_users_from_file returns it
PyInt(n) == [kind |-> "int", b |-> FALSE, rows |-> << <<Num(n)>> >>]

\* DatabaseManager: a turn of the loop up to the existence check
manager_check(m, line) ==
    LET parts == split(strip(line), ",")
    IN  IF strip(line) = <<>> \/ Head(strip(line)) = "#" THEN Turned(m)
        ELSE IF Len(parts) < 3 THEN Turned(m)
        ELSE With(existing_user(m.db, Fields(parts)[1]), LAMBDA existing :
                IF existing.ret.kind = "raise" \/ Truthy(existing.ret)
                THEN Turned(After(m, existing))
                ELSE Inserting(After(m, existing), Fields(parts)))

\* DatabaseManager: the insert of a user the check did not find, counted when
\* insert_record answers True
manager_insert(m, fields) ==
    With(insert_record(m.db, users,
             [c \in {username, password_hash, role} |->
                 CASE c = username -> fields[1]
                   [] c = password_hash -> fields[2]
                   [] OTHER -> fields[3]]),
         LAMBDA success :
            IF Truthy(success.ret) /\ success.ret.kind # "raise"
            THEN Succeeded(After(m, success))
            ELSE After(m, success))

\* DatabaseManager: one turn of the loop over the lines
manager_line(m, line) ==
    With(manager_check(m, line), LAMBDA turn :
        IF turn.fields = <<>> THEN turn.m ELSE manager_insert(turn.m, turn.fields))

RECURSIVE manager_lines(_, _)
manager_lines(m, lines) ==
    IF lines = <<>> \/ m.raised THEN m
    ELSE manager_lines(manager_line(m, Head(lines)), Tail(lines))

\* DatabaseManager.migrate_users_from_file(file_path); FileNotFoundError and
\* every other exception are answered with 0
DatabaseManager_migrate_users_from_file(db, file) ==
    IF ~file.exists THEN Outcome(db, PyInt(0), <<>>, FALSE)
    ELSE With(manager_lines(Progress(db), file.lines), LAMBDA m :
            Outcome(m.db, PyInt(IF m.raised THEN 0 ELSE m.success), m.sql, m.logged))

\* the demo_users list of create_demo_users; the bcrypt hash is the opaque "h"
john_analyst == <<"j","o","h","n","_","a","n","a","l","y","s","t">>
sara_scientist == <<"s","a","r","a","_","s","c","i","e","n","t","i","s","t">>
mike_admin == <<"m","i","k","e","_","a","d","m","i","n">>
Joel_analyst == <<"J","o","e","l","_","a","n","a","l","y","s","t">>
Sara_scientist == <<"S","a","r","a","_","s","c","i","e","n","t","i","s","t">>
Daniel_admin == <<"D","a","n","i","e","l","_","a","d","m","i","n">>
cyber_analyst == <<"c","y","b","e","r","_","a","n","a","l","y","s","t">>
data_scientist == <<"d","a","t","a","_","s","c","i","e","n","t","i","s","t">>
it_administrator == <<"i","t","_","a","d","m","i","n","i","s","t","r","a","t","o","r">>

demo_users ==
    <<  <<john_analyst, cyber_analyst>>, <<sara_scientist, data_scientist>>,
        <<mike_admin, it_administrator>>, <<Joel_analyst, cyber_analyst>>,
        <<Sara_scientist, data_scientist>>, <<Daniel_admin, it_administrator>> >>

\* DatabaseManager.get_user_by_username: "SELECT * FROM users WHERE username = ?"
get_user_by_username(db, name) ==
    execute_query(db, Statement("SELECT", "*", users, EmptyDict,
                                <<Predicate(username, "=", 1)>>, 0, 0), <<Str(name)>>)

\* create_demo_users: one turn of the loop; created_count grows whatever the
\* insert answered
demo_user(m, user) ==
    With(get_user_by_username(m.db, user[1]), LAMBDA existing :
        IF existing.ret.kind = "raise" \/ Truthy(existing.ret) THEN After(m, existing)
        ELSE With(execute_query(m.db, InsertUser(users),
                                <<Str(user[1]), hash1, Str(user[2])>>),
                  LAMBDA result :
                    IF result.ret.kind = "raise" THEN After(After(m, existing), result)
                    ELSE Succeeded(After(After(m, existing), result))))

RECURSIVE demo_each(_, _)
demo_each(m, todo) ==
    IF todo = <<>> \/ m.raised THEN m
    ELSE demo_each(demo_user(m, Head(todo)), Tail(todo))

\* DatabaseManager.create_demo_users()
create_demo_users(db) ==
    With(demo_each(Progress(db), demo_users), LAMBDA m :
        Outcome(m.db, IF m.raised THEN PyRaise ELSE PyInt(m.success), m.sql, m.logged))

(***************************************************************************)
(* The Streamlit application app.py.  Every event (a click, a submitted     *)
(* form) runs the script from the top with the session state the run before *)
(* left; st.rerun() ends the run and starts the next one with no event.     *)
(***************************************************************************)
role_analyst == <<"a","n","a","l","y","s","t">>
role_scientist == <<"s","c","i","e","n","t","i","s","t">>
role_admin == <<"a","d","m","i","n">>
password123 == <<"p","a","s","s","w","o","r","d","1","2","3">>

\* a session state with no key, as a new browser session and Logout leave it
NoKeys == [k \in {} |-> FALSE]

\* "if key not in st.session_state: st.session_state.key = default"
initialize(ss) ==
    [k \in {"logged_in", "username", "user_role", "current_page"} |->
        IF k \in DOMAIN ss THEN ss[k]
        ELSE CASE k = "logged_in" -> FALSE
               [] k = "current_page" -> "login"
               [] OTHER -> <<>>]

\* the demo_users dictionary of show_login_page: username -> role; every
\* password is password123
login_users ==
    [u \in {john_analyst, sara_scientist, mike_admin,
            Joel_analyst, Sara_scientist, Daniel_admin} |->
        CASE u \in {john_analyst, Joel_analyst} -> role_analyst
          [] u \in {sara_scientist, Sara_scientist} -> role_scientist
          [] OTHER -> role_admin]

\* the three quick-login buttons
quick_logins ==
    [b \in {"John", "Sara", "Mike"} |->
        CASE b = "John" -> <<john_analyst, role_analyst>>
          [] b = "Sara" -> <<sara_scientist, role_scientist>>
          [] OTHER -> <<mike_admin, role_admin>>]

menu_items == {"home", "dashboard", "assistant", "security", "analytics", "settings"}

\* what the user did to start a run; a run st.rerun() started has no event
NoEvent == [widget |-> "", item |-> "", username |-> <<>>, password |-> <<>>]
Click(widget, item) == [NoEvent EXCEPT !.widget = widget, !.item = item]
Submit(u, p) == [NoEvent EXCEPT !.widget = "login_form", !.username = u, !.password = p]

\* how a run ends: in st.rerun(), or with a page on the screen
Rerun(ss) == [ss |-> ss, rendered |-> "", rerun |-> TRUE]
Rendered(ss, page) == [ss |-> ss, rendered |-> page, rerun |-> FALSE]

\* the four assignments of a successful login
logged_in_as(ss, u, r) ==
    [ss EXCEPT !.logged_in = TRUE, !.username = u, !.user_role = r,
               !.current_page = "home"]

\* a Logout that leaves the session state as it is
logout_keeps(ss) == ss

\* the sidebar's Logout: "for key in list(st.session_state.keys()): del ..."
logout(ss) == NoKeys

\* the Logout of pages/dashboard.py deletes the keys of the login only
dashboard_logout(ss) == [k \in {"current_page"} |-> ss[k]]

\* show_login_page(): the form and the quick-login buttons
show_login_page(ss, event) ==
    IF event.widget = "login_form"
    THEN IF event.username \in DOMAIN login_users /\ event.password = password123
         THEN Rerun(logged_in_as(ss, event.username, login_users[event.username]))
         ELSE Rendered(ss, "login")
    ELSE IF event.widget = "quick_login"
    THEN Rerun(logged_in_as(ss, quick_logins[event.item][1], quick_logins[event.item][2]))
    ELSE Rendered(ss, "login")

\* a page whose buttons lead to other pages
page_with_buttons(ss, event, page, targets) ==
    IF event.widget = page /\ event.item \in targets
    THEN Rerun([ss EXCEPT !.current_page = event.item])
    ELSE Rendered(ss, page)

\* show_dashboard_page(): the dashboard of pages/dashboard.py, or the built-in
\* one when that cannot be shown
show_dashboard_page(ss, event, external) ==
    IF ~ss.logged_in THEN show_login_page(ss, event)
    ELSE IF external
    THEN IF event.widget = "dashboard_logout" THEN Rerun(dashboard_logout(ss))
         ELSE Rendered(ss, "dashboard")
    ELSE page_with_buttons(ss, event, "dashboard", {"security", "analytics", "settings"})

\* the page routing of main()
route(ss, event, external) ==
    IF ~ss.logged_in THEN show_login_page(ss, event)
    ELSE CASE ss.current_page = "home" ->
                page_with_buttons(ss, event, "home", {"dashboard", "assistant"})
           [] ss.current_page = "dashboard" -> show_dashboard_page(ss, event, external)
           [] ss.current_page = "assistant" ->
                page_with_buttons(ss, event, "assistant", {"settings"})
           [] ss.current_page \in {"security", "analytics", "settings"} ->
                Rendered(ss, ss.current_page)
           [] ss.current_page = "login" -> Rerun([ss EXCEPT !.current_page = "home"])
           [] OTHER -> page_with_buttons(ss, event, "home", {"dashboard", "assistant"})

\* the sidebar of main(), then the routing
main(ss, event, external) ==
    IF ss.logged_in /\ event.widget = "menu"
    THEN Rerun([ss EXCEPT !.current_page = event.item])
    ELSE IF ss.logged_in /\ event.widget = "logout" THEN Rerun(logout(ss))
    ELSE IF ~ss.logged_in /\ event.widget = "go_to_login"
    THEN Rerun([ss EXCEPT !.current_page = "login"])
    ELSE route(ss, event, external)

\* one run of the script
script(ss, event, external) == main(initialize(ss), event, external)

\* str.lower()
lower(text) == [i \in 1..Len(text) |-> Lower(text[i])]

\* sub in text
In(sub, text) ==
    \E i \in 0..(Len(text) - Len(sub)) : SubSeq(text, i + 1, i + Len(sub)) = sub

\* the words the access rules of pages/dashboard.py look for
cyber == <<"c","y","b","e","r">>
data_word == <<"d","a","t","a">>
it == <<"i","t">>
operations == <<"o","p","e","r","a","t","i","o","n","s">>

\* the three domains, in the order of the domain_access dictionary
Domains == <<"cybersecurity", "data_science", "it_operations">>

\* "{domain: True for domain in domain_access}"
all_access(access) == [d \in DOMAIN access |-> TRUE]

\* an access dictionary returned as the rules left it
no_fallback(access) == access

\* "if not any(domain_access.values())": a role no rule matched gets every domain
fallback(access) ==
    IF \A d \in DOMAIN access : ~access[d] THEN all_access(access) ELSE access

\* get_user_domain_access() of pages/dashboard.py, for st.session_state ss
get_user_domain_access(ss) ==
    LET r == lower(IF "user_role" \in DOMAIN ss THEN ss.user_role ELSE <<>>)
    IN  fallback([d \in {Domains[i] : i \in 1..3} |->
            CASE d = "cybersecurity" ->
                    In(cyber, r) \/ In(role_analyst, r) \/ r = role_admin
              [] d = "data_science" ->
                    In(data_word, r) \/ In(role_scientist, r) \/ r = role_admin
              [] OTHER -> In(it, r) \/ In(role_admin, r) \/ In(operations, r)])

(***************************************************************************)
(* The state machine: one step is one call of a public operation on an     *)
(* open DatabaseManager whose tables create_tables has made.               *)
(***************************************************************************)
NoArgs ==
    [table_name |-> <<>>, record_id |-> None, data |-> EmptyDict, column |-> <<>>,
     value |-> None, limit |-> None, offset |-> None,
     query |-> Statement("", "", <<>>, EmptyDict, <<>>, 0, 0), params_list |-> <<>>,
     filters |-> EmptyDict, exception |-> "",
     file |-> [exists |-> FALSE, lines |-> <<>>], locked |-> FALSE]

database ==
    [store |-> store, sequence |-> sequence, clock |-> clock, connection |-> connection,
     locked |-> FALSE]

\* the two further instances, and which migrate_users_from_file each runs
Instances == {1, 2}
Kinds == {"user_service", "DatabaseManager"}

\* an instance that runs no migration: its place in the loop, the lines still
\* to read, the fields its check let through, its counters, the INSERTs it
\* issued and the rows these added, and what its last run returned
Idle ==
    [at |-> "idle", kind |-> "user_service", todo |-> <<>>, fields |-> <<>>,
     success |-> 0, error |-> 0, total |-> 0, inserts |-> 0, added |-> 0,
     ret |-> PyNone]

\* the file both instances migrate
RaceFiles == {File(<<UserLine("a"), UserLine("b")>>)}

\* the names and passwords typed into the login form
LoginInputs ==
    [usernames |-> DOMAIN login_users \cup {<<"x">>, <<>>},
     passwords |-> {password123, <<"x">>}]

\* role strings: one or two words joined by an underscore, the words the
\* access rules look for among them, in lower, upper and mixed case
administrator ==
    <<"a","d","m","i","n","i","s","t","r","a","t","o","r">>

RoleWords ==
    {cyber, data_word, it, operations, role_admin, role_analyst, role_scientist,
     administrator, <<"u","s","e","r">>, <<"I","T">>, <<"A","d","m","i","n">>}

Roles ==
    {<<>>} \cup RoleWords \cup {w1 \o <<"_">> \o w2 : w1, w2 \in RoleWords}

\* the record store after construction
Created ==
    /\ store = [t \in DOMAIN tables |-> {}]
    /\ sequence = [t \in DOMAIN tables |-> 0]
    /\ clock = 0
    /\ last = [op |-> "__init__", args |-> NoArgs, ret |-> PyNone, sql |-> <<>>,
               error |-> FALSE,
               before |-> [store |-> [t \in DOMAIN tables |-> {}],
                           sequence |-> [t \in DOMAIN tables |-> 0],
                           connection |-> "open"]]
    /\ connection = "open"
    /\ block = [at |-> "outside", exception |-> ""]
    /\ runs = [i \in Instances |-> Idle]

\* a browser session before the first run of the script; external tells whether
\* the dashboard of pages/dashboard.py can be shown inside app.py
NewSession(external) ==
    [event |-> NoEvent, previous |-> NoEvent, rendered |-> "", external |-> external,
     rerun |-> TRUE]

Init ==
    /\ Created
    /\ session_state = NoKeys
    /\ app = NewSession(FALSE)

\* the application, with and without the external dashboard
InitApp ==
    /\ Created
    /\ session_state = NoKeys
    /\ \E external \in BOOLEAN : app = NewSession(external)

\* the dashboard page of a session whose login gave it any of the roles, or
\* left it without the user_role key
InitAccess ==
    /\ Created
    /\ session_state \in
          {[logged_in |-> TRUE, username |-> john_analyst, user_role |-> r,
            current_page |-> "dashboard"] : r \in Roles}
          \cup {[logged_in |-> TRUE, username |-> john_analyst,
                 current_page |-> "dashboard"]}
    /\ app = [NewSession(TRUE) EXCEPT !.rendered = "dashboard", !.rerun = FALSE]

Call(op, args, out) ==
    /\ store' = out.db.store
    /\ sequence' = out.db.sequence
    /\ connection' = out.db.connection
    /\ UNCHANGED <<clock, runs, session_state, app>>
    /\ last' = [op |-> op, args |-> args, ret |-> out.ret, sql |-> out.sql,
                error |-> out.error,
                before |-> [store |-> store, sequence |-> sequence,
                            connection |-> connection]]

\* a call that is no entry to or exit from a with-block
Run(op, args, out) == Call(op, args, out) /\ UNCHANGED block

\* the loop of instance i taken up again on the database as it is now
Resume(i) ==
    [Progress(database) EXCEPT !.success = runs[i].success, !.error = runs[i].error,
                               !.total = runs[i].total]

\* the loop of instance i left after a turn or half a turn
Suspend(i, m, at, todo, fields) ==
    [runs[i] EXCEPT !.at = at, !.todo = todo, !.fields = fields,
                    !.success = m.success, !.error = m.error, !.total = m.total]

\* a step of an instance's migration, seen from the shared database
Step(i, m, run) ==
    /\ store' = m.db.store
    /\ sequence' = m.db.sequence
    /\ runs' = [runs EXCEPT ![i] = run]
    /\ UNCHANGED <<clock, last, connection, block, session_state, app>>

\* instance i opens the file and starts its loop
MigrationBegins(i) ==
    /\ runs[i].at = "idle"
    /\ \E kind \in Kinds, file \in RaceFiles :
          runs' = [runs EXCEPT ![i] = [Idle EXCEPT !.at = "check", !.kind = kind,
                                                   !.todo = file.lines]]
    /\ UNCHANGED <<store, sequence, clock, last, connection, block, session_state, app>>

\* instance i reads its next line and looks the user up
MigrationChecks(i) ==
    /\ runs[i].at = "check"
    /\ runs[i].todo # <<>>
    /\ With(IF runs[i].kind = "user_service"
            THEN user_check(Resume(i), Head(runs[i].todo))
            ELSE manager_check(Resume(i), Head(runs[i].todo)),
            LAMBDA turn :
              Step(i, turn.m,
                   Suspend(i, turn.m, IF turn.fields = <<>> THEN "check" ELSE "insert",
                           IF turn.m.raised THEN <<>> ELSE Tail(runs[i].todo),
                           turn.fields)))

\* instance i inserts the user its check did not find
MigrationInserts(i) ==
    /\ runs[i].at = "insert"
    /\ With(IF runs[i].kind = "user_service"
            THEN user_insert(Resume(i), runs[i].fields)
            ELSE manager_insert(Resume(i), runs[i].fields),
            LAMBDA m :
              Step(i, m,
                   [Suspend(i, m, "check", IF m.raised THEN <<>> ELSE runs[i].todo, <<>>)
                       EXCEPT !.inserts = @ + 1,
                              !.added = @ + Cardinality(m.db.store[users])
                                          - Cardinality(store[users])]))

\* instance i has read every line and returns its counts
MigrationReturns(i) ==
    /\ runs[i].at = "check"
    /\ runs[i].todo = <<>>
    /\ runs' = [runs EXCEPT ![i].at = "done",
                            ![i].ret = IF runs[i].kind = "user_service"
                                       THEN PyTuple(<<Num(runs[i].success),
                                                      Num(runs[i].error),
                                                      Num(runs[i].total)>>)
                                       ELSE PyInt(runs[i].success)]
    /\ UNCHANGED <<store, sequence, clock, last, connection, block, session_state, app>>

CreateDemoUsers == Run("create_demo_users", NoArgs, create_demo_users(database))

\* a run of the script for an event
RunScript(event) ==
    With(script(session_state, event, app.external), LAMBDA out :
        /\ session_state' = out.ss
        /\ app' = [app EXCEPT !.event = event, !.previous = app.event,
                              !.rendered = out.rendered, !.rerun = out.rerun]
        /\ UNCHANGED <<store, sequence, clock, last, connection, block, runs>>)

\* the first run of a session, and the run st.rerun() starts
Rerunning == app.rerun /\ RunScript(NoEvent)

\* the widgets of the login page
LoginSubmit ==
    /\ ~app.rerun /\ app.rendered = "login"
    /\ \E u \in LoginInputs.usernames, p \in LoginInputs.passwords :
          RunScript(Submit(u, p))

QuickLogin ==
    /\ ~app.rerun /\ app.rendered = "login"
    /\ \E b \in DOMAIN quick_logins : RunScript(Click("quick_login", b))

GoToLogin ==
    /\ ~app.rerun /\ app.rendered = "login"
    /\ RunScript(Click("go_to_login", ""))

\* the sidebar of a logged-in user
Menu ==
    /\ ~app.rerun /\ app.rendered \in menu_items
    /\ \E item \in menu_items : RunScript(Click("menu", item))

Logout ==
    /\ ~app.rerun /\ app.rendered \in menu_items
    /\ RunScript(Click("logout", ""))

\* the buttons of the home page, the built-in dashboard and the assistant page
PageButton ==
    /\ ~app.rerun
    /\ \E item \in menu_items :
          /\ \/ app.rendered = "home" /\ item \in {"dashboard", "assistant"}
             \/ /\ app.rendered = "dashboard" /\ ~app.external
                /\ item \in {"security", "analytics", "settings"}
             \/ app.rendered = "assistant" /\ item = "settings"
          /\ RunScript(Click(app.rendered, item))

\* the Logout button of the dashboard of pages/dashboard.py
DashboardLogout ==
    /\ ~app.rerun /\ app.rendered = "dashboard" /\ app.external
    /\ RunScript(Click("dashboard_logout", ""))

\* the dashboard asks which domains the role of the session may see
GetUserDomainAccess ==
    With(get_user_domain_access(session_state), LAMBDA access :
        Run("get_user_domain_access", NoArgs,
            Outcome(database,
                    PyDict([i \in 1..3 |-> <<Domains[i], access[Domains[i]]>>]),
                    <<>>, FALSE)))

\* AUTOINCREMENT stays within 1..MaxId
RoomFor(table_name) ==
    table_name \in DOMAIN tables =>
        Max(sequence[table_name], MaxRowId(store[table_name])) < MaxId

GetAllRecords(I) ==
    \E table_name \in I.table_names :
        Run("get_all_records", [NoArgs EXCEPT !.table_name = table_name],
            get_all_records(database, table_name))

GetRecordsWithLimit(I) ==
    \E table_name \in I.table_names, limit \in {Num(1), Num(-1)}, offset \in {Num(0), Num(1)} :
        Run("get_records_with_limit",
            [NoArgs EXCEPT !.table_name = table_name, !.limit = limit, !.offset = offset],
            get_records_with_limit(database, table_name, limit, offset))

InsertRecord(I) ==
    \E table_name \in I.table_names :
        \E data \in I.inserts[table_name] :
            /\ RoomFor(table_name)
            /\ Run("insert_record",
                   [NoArgs EXCEPT !.table_name = table_name, !.data = data],
                   insert_record(database, table_name, data))

UpdateRecord(I) ==
    \E table_name \in I.table_names, record_id \in I.record_ids :
        \E data \in I.updates[table_name] :
            Run("update_record",
                [NoArgs EXCEPT !.table_name = table_name, !.record_id = record_id,
                               !.data = data],
                update_record(database, table_name, record_id, data))

DeleteRecord(I) ==
    \E table_name \in I.table_names, record_id \in I.lookup_ids :
        Run("delete_record",
            [NoArgs EXCEPT !.table_name = table_name, !.record_id = record_id],
            delete_record(database, table_name, record_id))

GetRecordById(I) ==
    \E table_name \in I.table_names, record_id \in I.lookup_ids :
        Run("get_record_by_id",
            [NoArgs EXCEPT !.table_name = table_name, !.record_id = record_id],
            get_record_by_id(database, table_name, record_id))

SearchRecords(I) ==
    \E table_name \in I.table_names, column \in I.columns, value \in I.values :
        Run("search_records",
            [NoArgs EXCEPT !.table_name = table_name, !.column = column, !.value = value],
            search_records(database, table_name, column, value))

GetTableColumns(I) ==
    \E table_name \in I.table_names :
        Run("get_table_columns", [NoArgs EXCEPT !.table_name = table_name],
            get_table_columns(database, table_name))

RecordExists(I) ==
    \E table_name \in I.table_names, column \in I.columns, value \in I.values :
        Run("record_exists",
            [NoArgs EXCEPT !.table_name = table_name, !.column = column, !.value = value],
            record_exists(database, table_name, column, value))

GetCyberIncidents(I) ==
    \E filters \in I.filters :
        Run("get_cyber_incidents", [NoArgs EXCEPT !.filters = filters],
            get_cyber_incidents(database, filters))

GetDatasets(I) ==
    \E filters \in I.dataset_filters :
        Run("get_datasets", [NoArgs EXCEPT !.filters = filters],
            get_datasets(database, filters))

GetItTickets(I) ==
    \E filters \in I.ticket_filters :
        Run("get_it_tickets", [NoArgs EXCEPT !.filters = filters],
            get_it_tickets(database, filters))

LogUserActivity(I) ==
    \E uid \in I.user_ids :
        /\ RoomFor(user_activity)
        /\ Run("log_user_activity", [NoArgs EXCEPT !.record_id = uid],
               log_user_activity(database, uid, alice, Str(<<"l","o","g","i","n">>), titleX))

GetDatabaseStats == Run("get_database_stats", NoArgs, get_database_stats(database))

\* create_tables is called while the file is free or while another connection
\* holds its lock
CreateTables ==
    \E locked \in BOOLEAN :
        Run("create_tables", [NoArgs EXCEPT !.locked = locked],
            create_tables([database EXCEPT !.locked = locked]))

MigrateUsersFromFile ==
    \E file \in Files :
        Run("migrate_users_from_file", [NoArgs EXCEPT !.file = file],
            migrate_users_from_file(database, file))

DatabaseManagerMigrateUsersFromFile ==
    \E file \in Files :
        Run("DatabaseManager.migrate_users_from_file", [NoArgs EXCEPT !.file = file],
            DatabaseManager_migrate_users_from_file(database, file))

Close == Run("close", NoArgs, close(database))

\* "with db:" is entered
Enter ==
    /\ block.at # "inside"
    /\ Call("__enter__", NoArgs, enter(database))
    /\ block' = [at |-> "inside", exception |-> ""]

\* the block is left, at its end or by an exception its body raised
Exit ==
    \E exception \in {"", "KeyError"} :
        /\ block.at = "inside"
        /\ Call("__exit__", [NoArgs EXCEPT !.exception = exception], exit(database))
        /\ block' = [at |-> "left", exception |-> Leaving(exception, exit(database).ret)]

ExecuteQuery ==
    \E q \in Queries :
        /\ q[1].verb = "INSERT" => RoomFor(q[1].table)
        /\ Run("execute_query", [NoArgs EXCEPT !.query = q[1], !.params_list = <<q[2]>>],
               execute_query(database, q[1], q[2]))

ExecuteMany ==
    \E q \in Batches :
        /\ Max(sequence[users], MaxRowId(store[users])) + Len(q[2]) <= MaxId
        /\ Run("execute_many", [NoArgs EXCEPT !.query = q[1], !.params_list = q[2]],
               execute_many(database, q[1], q[2]))

\* create, read, update and delete on the users table
Next ==
    \/ InsertRecord(UserInputs)
    \/ UpdateRecord(UserInputs)
    \/ DeleteRecord(UserInputs)
    \/ GetRecordById(UserInputs)

Spec == Init /\ [][Next]_vars

\* every operation that takes a table or column name, with names of every kind
NextNames ==
    \/ GetAllRecords(NameInputs)
    \/ GetRecordsWithLimit(NameInputs)
    \/ InsertRecord(NameInputs)
    \/ UpdateRecord(NameInputs)
    \/ DeleteRecord(NameInputs)
    \/ GetRecordById(NameInputs)
    \/ SearchRecords(NameInputs)
    \/ GetTableColumns(NameInputs)
    \/ RecordExists(NameInputs)

SpecNames == Init /\ [][NextNames]_vars

\* the two primitives that hand a statement to the store
NextExecute ==
    \/ ExecuteQuery
    \/ ExecuteMany

SpecExecute == Init /\ [][NextExecute]_vars

\* inserts and updates on cyber_incidents and it_tickets
NextEnum ==
    \/ InsertRecord(EnumInputs)
    \/ UpdateRecord(EnumInputs)

SpecEnum == Init /\ [][NextEnum]_vars

\* the incident view over a table that inserts fill
NextViews ==
    \/ InsertRecord(ViewInputs)
    \/ GetCyberIncidents(ViewInputs)

SpecViews == Init /\ [][NextViews]_vars

\* the life of the connection: every operation before and after close(), and
\* the with-block
NextLifecycle ==
    \/ Close
    \/ Enter
    \/ Exit
    \/ ExecuteQuery
    \/ ExecuteMany
    \/ InsertRecord(LifeInputs)
    \/ UpdateRecord(LifeInputs)
    \/ DeleteRecord(LifeInputs)
    \/ GetAllRecords(LifeInputs)
    \/ GetRecordsWithLimit(LifeInputs)
    \/ GetRecordById(LifeInputs)
    \/ SearchRecords(LifeInputs)
    \/ GetCyberIncidents(LifeInputs)
    \/ GetTableColumns(LifeInputs)
    \/ RecordExists(LifeInputs)

SpecLifecycle == Init /\ [][NextLifecycle]_vars

\* the migration of users files, by either function
NextMigration ==
    \/ MigrateUsersFromFile
    \/ DatabaseManagerMigrateUsersFromFile

SpecMigration == Init /\ [][NextMigration]_vars

\* the ticket and dataset views over tables that inserts fill
NextDomainViews ==
    \/ InsertRecord(DomainInputs)
    \/ GetDatasets(DomainInputs)
    \/ GetItTickets(DomainInputs)

SpecDomainViews == Init /\ [][NextDomainViews]_vars

\* users, the activity log that refers to them, and the row counts
NextActivity ==
    \/ InsertRecord(ActivityInputs)
    \/ LogUserActivity(ActivityInputs)
    \/ UpdateRecord(ActivityInputs)
    \/ DeleteRecord(ActivityInputs)
    \/ GetDatabaseStats

SpecActivity == Init /\ [][NextActivity]_vars

\* create_tables on a database that inserts fill
NextCreate ==
    \/ InsertRecord(UserInputs)
    \/ CreateTables

SpecCreate == Init /\ [][NextCreate]_vars

\* searches over a users table that inserts fill
\* username uniqueness: inserts and updates of users, the demo users, and two
\* instances migrating at the same time
NextRace ==
    \/ InsertRecord(RaceInputs)
    \/ UpdateRecord(RaceInputs)
    \/ CreateDemoUsers
    \/ \E i \in Instances :
          \/ MigrationBegins(i)
          \/ MigrationChecks(i)
          \/ MigrationInserts(i)
          \/ MigrationReturns(i)

SpecRace == Init /\ [][NextRace]_vars

\* the application: logins, navigation and logouts
NextApp ==
    \/ Rerunning
    \/ LoginSubmit
    \/ QuickLogin
    \/ GoToLogin
    \/ Menu
    \/ Logout
    \/ PageButton
    \/ DashboardLogout

SpecApp == InitApp /\ [][NextApp]_vars

\* the domain access of every role
NextAccess == GetUserDomainAccess

SpecAccess == InitAccess /\ [][NextAccess]_vars

NextSearch ==
    \/ InsertRecord(SearchInputs)
    \/ SearchRecords(SearchInputs)

SpecSearch == Init /\ [][NextSearch]_vars

(***************************************************************************)
(* Properties.                                                             *)
(***************************************************************************)
\* the name has a character that is no letter, digit or underscore
ContainsOther(name) ==
    \E i \in 1..Len(name) : name[i] \notin Letters \cup Digits \cup {"_"}

\* what an operation returns to report failure
FailureValue(op) ==
    CASE op \in {"get_all_records", "get_records_with_limit", "search_records",
                 "get_table_columns"} -> PyList(<<>>)
      [] op = "get_record_by_id" -> PyNone
      [] OTHER -> PyBool(FALSE)

NamedOperations ==
    {"get_all_records", "get_records_with_limit", "insert_record", "update_record",
     "delete_record", "get_record_by_id", "search_records", "get_table_columns",
     "record_exists"}

\* the database is as it was before the last call
Untouched == store = last.before.store /\ sequence = last.before.sequence

AllNone(data) == \A k \in DOMAIN data : data[k].ty = "null"

\* C1: an operation given a table name, or (search_records, record_exists) a column
\* name, with a character other than a letter, digit or underscore returns its
\* failure value, hands no statement to the store and leaves the database as it was
C1_InvalidIdentifierRefused ==
    ( /\ last.op \in NamedOperations
      /\ \/ ContainsOther(last.args.table_name)
         \/ /\ last.op \in {"search_records", "record_exists"}
            /\ ContainsOther(last.args.column) )
    => /\ last.ret = FailureValue(last.op)
       /\ last.sql = <<>>
       /\ Untouched

C1_Witness ==
    /\ last.op = "search_records"
    /\ last.args.table_name = users
    /\ ContainsOther(last.args.column)
    /\ store[users] # {}

\* C2: every key of the dict given to insert_record or update_record passes the
\* identifier check before it is placed in the statement: no INSERT or UPDATE
\* handed to the store names a column that fails the check
C2_KeysValidated ==
    \A i \in DOMAIN last.sql :
        last.sql[i].query.verb \in {"INSERT", "UPDATE"} =>
            \A k \in DOMAIN last.sql[i].query.set : ValidIdentifier(k)

\* C3: insert_record('users', ...) with a username some users row already has
\* returns False and leaves the users table as it was
C3_DuplicateUsernameFails ==
    ( /\ last.op = "insert_record"
      /\ last.args.table_name = users
      /\ username \in DOMAIN last.args.data
      /\ \E r \in last.before.store[users] :
            r[username] = Affinity("TEXT", last.args.data[username]) )
    => /\ last.ret = PyBool(FALSE)
       /\ store[users] = last.before.store[users]

\* the dict holds, for a column with a CHECK enumeration, a value outside it
OutOfEnumeration(t, data) ==
    \E c \in ColumnsOf(t) :
        /\ c.check # {}
        /\ c.name \in DOMAIN data
        /\ data[c.name].ty # "null"
        /\ AsText(data[c.name]) \notin c.check

\* C4: an insert_record, or an update_record of an existing row, on cyber_incidents
\* or it_tickets with a severity, status or priority outside the column's
\* enumeration returns False and leaves the table as it was
C4_EnumerationEnforced ==
    ( /\ last.op \in {"insert_record", "update_record"}
      /\ last.args.table_name \in {cyber_incidents, it_tickets}
      /\ OutOfEnumeration(last.args.table_name, last.args.data)
      /\ last.op = "update_record" =>
            \E r \in last.before.store[last.args.table_name] : r[id] = last.args.record_id )
    => /\ last.ret = PyBool(FALSE)
       /\ store = last.before.store

\* C5: when a mutating statement given to execute_query hits a store error, the
\* database is as before the call and the value returned differs from None, the
\* value returned for a committed mutation
C5_FailureDistinguishable ==
    ( /\ last.op = "execute_query"
      /\ ~IsSelect(last.args.query)
      /\ last.error )
    => /\ Untouched
       /\ last.ret # PyNone

\* C6: insert_record with an empty dict, or a dict whose values are all None,
\* returns False, hands no statement to the store and leaves the database as it
\* was, whatever the table name
C6_EmptyInsertRefused ==
    (last.op = "insert_record" /\ AllNone(last.args.data))
    => /\ last.ret = PyBool(FALSE)
       /\ last.sql = <<>>
       /\ Untouched

C6_Witness ==
    /\ last.op = "insert_record"
    /\ last.args.table_name = users
    /\ last.args.data = Single(role, None)
    /\ store[users] # {}

\* the last call was update_record on the users table, for a row that was there,
\* with a non-empty dict whose keys are columns of the table
UpdatedExistingUser ==
    /\ last.op = "update_record"
    /\ last.args.table_name = users
    /\ DOMAIN last.args.data # {}
    /\ DOMAIN last.args.data \subseteq ColumnNames(users)
    /\ \E r \in last.before.store[users] : r[id] = last.args.record_id

\* C7 as stated: after update_record on an existing row, get_record_by_id with the
\* same id returns a row holding the given value in every column of the dict and
\* the prior value in every other column, and the other rows are as they were
C7_UpdateReflectsFields ==
    UpdatedExistingUser =>
        LET old == CHOOSE r \in last.before.store[users] : r[id] = last.args.record_id
            got == get_record_by_id(database, users, last.args.record_id).ret
        IN  /\ got.kind = "tuple"
            /\ \A i \in 1..Len(users_table) :
                  got.rows[1][i] =
                      IF users_table[i].name \in DOMAIN last.args.data
                      THEN last.args.data[users_table[i].name]
                      ELSE old[users_table[i].name]
            /\ \A r \in last.before.store[users] : r # old => r \in store[users]

\* C7 amended: when the store accepts the UPDATE, the row is found under the id
\* given in the dict (under the original id when the dict gives none); each column
\* given a value other than None holds it as the column's type keeps it (an integer
\* given for a TEXT column is kept as its decimal text), every other column holds
\* its prior value, and the other rows are as they were; when the store rejects the
\* UPDATE the table is as it was
C7_UpdateReflectsAcceptedFields ==
    UpdatedExistingUser =>
        LET old == CHOOSE r \in last.before.store[users] : r[id] = last.args.record_id
            data == last.args.data
            given(c) == c \in DOMAIN data /\ data[c].ty # "null"
            now_id == IF given(id) THEN data[id] ELSE last.args.record_id
            got == get_record_by_id(database, users, now_id).ret
            kept(c) == IF c # id /\ data[c].ty = "int" THEN Str(Decimal(data[c].n))
                       ELSE data[c]
        IN  IF last.error THEN store[users] = last.before.store[users]
            ELSE /\ got.kind = "tuple"
                 /\ \A i \in 1..Len(users_table) :
                       got.rows[1][i] =
                           IF given(users_table[i].name) THEN kept(users_table[i].name)
                           ELSE old[users_table[i].name]
                 /\ {r \in store[users] : r[id] # now_id} = last.before.store[users] \ {old}

C7_Witness ==
    /\ UpdatedExistingUser
    /\ ~last.error
    /\ last.args.data = UserDict(Absent, bob, hash7, None)
    /\ Cardinality(store[users]) = 2
    /\ \E r \in last.before.store[users] :
          r[id] = last.args.record_id /\ r[password_hash] = hash1 /\ r[username] = bob

\* C8: after delete_record(table, id), get_record_by_id(table, id) returns None,
\* the rows with another id are as they were, and when no row has the id the call
\* returns a bool and the database is as it was
C8_DeleteRemovesOnlyThatRow ==
    (last.op = "delete_record" /\ last.args.table_name = users) =>
        LET target == Affinity("INTEGER", last.args.record_id)
            hit == {r \in last.before.store[users] : r[id] = target}
        IN  /\ last.ret.kind = "bool"
            /\ get_record_by_id(database, users, last.args.record_id).ret = PyNone
            /\ store[users] = last.before.store[users] \ hit
            /\ hit = {} => Untouched

C8_Witness ==
    /\ last.op = "delete_record"
    /\ last.args.table_name = users
    /\ \E r \in last.before.store[users] : r[id] = last.args.record_id
    /\ store[users] # {}

\* the ids of the rows of a table
IdsIn(rows) == {r[id] : r \in rows}

\* C9: no insert_record, update_record or delete_record changes the id of a row:
\* an insert adds to the ids of a table, a delete takes from them, an update leaves
\* them as they are
C9_IdImmutable ==
    \A t \in DOMAIN tables :
        CASE last.op = "insert_record" -> IdsIn(last.before.store[t]) \subseteq IdsIn(store[t])
          [] last.op = "delete_record" -> IdsIn(store[t]) \subseteq IdsIn(last.before.store[t])
          [] last.op = "update_record" -> IdsIn(store[t]) = IdsIn(last.before.store[t])
          [] OTHER -> TRUE

\* C10: execute_many is all or nothing.  For the INSERT of users: when the statement
\* is no INSERT, UPDATE or DELETE, or some tuple has no username, or a username that
\* a row or an earlier tuple has, False is returned and the database is as it was;
\* otherwise True is returned and every tuple is a new row
C10_BatchAllOrNothing ==
    last.op = "execute_many" =>
        LET query == last.args.query
            list == last.args.params_list
            was == last.before.store[users]
            name(i) == list[i][query.set[username]]
            fails ==
                IF query.verb \notin {"INSERT", "UPDATE", "DELETE"} THEN TRUE
                ELSE \E i \in 1..Len(list) :
                        \/ name(i).ty = "null"
                        \/ \E r \in was : r[username] = name(i)
                        \/ \E j \in 1..(i - 1) : name(j) = name(i)
        IN  IF fails THEN last.ret = PyBool(FALSE) /\ Untouched
            ELSE /\ last.ret = PyBool(TRUE)
                 /\ was \subseteq store[users]
                 /\ Cardinality(store[users]) = Cardinality(was) + Len(list)
                 /\ \A i \in 1..Len(list) :
                       \E r \in store[users] \ was :
                           /\ r[username] = name(i)
                           /\ r[password_hash] = list[i][query.set[password_hash]]
                           /\ r[role] = list[i][query.set[role]]

C10_Witness ==
    /\ last.op = "execute_many"
    /\ last.ret = PyBool(FALSE)
    /\ Len(last.args.params_list) = 2
    /\ last.args.params_list[1][1] = alice
    /\ last.args.params_list[2][1] = alice
    /\ \A r \in last.before.store[users] : r[username] # alice

\* the database as it was before the last call
DatabaseBefore ==
    [database EXCEPT !.store = last.before.store, !.sequence = last.before.sequence]

ColumnIndex(t, nm) == CHOOSE i \in 1..Len(tables[t]) : tables[t][i].name = nm

OpenIncidents == {r \in last.before.store[cyber_incidents] : r[status] = Str(Open)}

\* C11: get_cyber_incidents({'status': 'Open'}) returns exactly the rows of
\* cyber_incidents whose status is 'Open', each once, no row of another status,
\* with date_reported never increasing along the list
C11_OpenIncidentsView ==
    ( /\ last.op = "get_cyber_incidents"
      /\ last.args.filters = Single(status, Str(Open)) )
    => /\ last.ret.kind = "list"
       /\ Len(last.ret.rows) = Cardinality(OpenIncidents)
       /\ {last.ret.rows[i] : i \in DOMAIN last.ret.rows}
             = {AsTuple(cyber_incidents, r) : r \in OpenIncidents}
       /\ \A i, j \in DOMAIN last.ret.rows :
             i < j => ~Before(last.ret.rows[i][ColumnIndex(cyber_incidents, date_reported)],
                              last.ret.rows[j][ColumnIndex(cyber_incidents, date_reported)])

C11_Witness ==
    /\ last.op = "get_cyber_incidents"
    /\ last.args.filters = Single(status, Str(Open))
    /\ \E r \in store[cyber_incidents] : r[status] = Str(Closed)
    /\ Len(last.ret.rows) = 2
    /\ last.ret.rows[1][ColumnIndex(cyber_incidents, title)] = Phishing
    /\ last.ret.rows[1][ColumnIndex(cyber_incidents, id)].n
          > last.ret.rows[2][ColumnIndex(cyber_incidents, id)].n
    /\ Before(last.ret.rows[2][ColumnIndex(cyber_incidents, date_reported)],
              last.ret.rows[1][ColumnIndex(cyber_incidents, date_reported)])

\* the filters without the keys that fail the identifier check
ValidFilters(filters) ==
    [k \in {x \in DOMAIN filters : ValidIdentifier(x)} |-> filters[k]]

\* C12: a key of the filters that fails the identifier check is dropped and the
\* call does not fail: it returns what the call without that key returns (every
\* row when no valid key is left) and the key is no part of the statement
C12_InvalidFilterKeyDropped ==
    ( /\ last.op = "get_cyber_incidents"
      /\ \E k \in DOMAIN last.args.filters : ~ValidIdentifier(k) )
    => /\ ~last.error
       /\ last.ret = get_cyber_incidents(DatabaseBefore, ValidFilters(last.args.filters)).ret
       /\ DOMAIN ValidFilters(last.args.filters) = {} =>
             Len(last.ret.rows) = Cardinality(last.before.store[cyber_incidents])
       /\ \A i \in DOMAIN last.sql :
             \A k \in IdentifiersIn(last.sql[i].query) : ValidIdentifier(k)

C12_Witness ==
    /\ last.op = "get_cyber_incidents"
    /\ DOMAIN last.args.filters = {status, TwoWords}
    /\ Len(last.ret.rows) = 1
    /\ Cardinality(store[cyber_incidents]) = 3

\* C13: get_table_columns of an existing table returns the names of its columns
\* in the order create_tables declares them; the list is empty only for a name
\* that is invalid or names no table
C13_TableColumnsListed ==
    last.op = "get_table_columns" =>
        IF last.args.table_name \in DOMAIN tables
        THEN last.ret = PyList([i \in 1..Len(tables[last.args.table_name]) |->
                                   Str(tables[last.args.table_name][i].name)])
        ELSE last.ret = PyList(<<>>)

\* C14: close() on a DatabaseManager whose connection is already closed raises
\* nothing and leaves it closed, however often it is repeated; close() never
\* changes what the database file holds
C14_CloseIdempotent ==
    last.op = "close" =>
        /\ last.ret = PyNone
        /\ connection = "closed"
        /\ Untouched

C14_Witness ==
    /\ last.op = "close"
    /\ last.before.connection = "closed"
    /\ store[users] # {}

\* C15: no public operation lets an exception reach its caller, in any state of
\* the object, closed ones included
C15_NoOperationRaises == last.ret.kind # "raise"

\* C16: when a with-block around a DatabaseManager is left, at its end or by an
\* exception of its body, the connection is closed, and the exception of the body
\* reaches the caller of the block
C16_ScopedRelease ==
    last.op = "__exit__" =>
        /\ connection = "closed"
        /\ block.at = "left"
        /\ block.exception = last.args.exception

C16_Witness ==
    /\ last.op = "__exit__"
    /\ last.args.exception = "KeyError"
    /\ block.exception = "KeyError"
    /\ last.before.connection = "open"
    /\ store[users] # {}

\* the usernames a users file names, and the usernames the users table held
\* before the call and holds after it
Usernames(file) ==
    {Fields(split(strip(file.lines[i]), ","))[1] : i \in DOMAIN file.lines}

UsersBefore == {r[username] : r \in last.before.store[users]}

UsersNow == {r[username] : r \in store[users]}

Migrating == last.op \in {"migrate_users_from_file", "DatabaseManager.migrate_users_from_file"}

\* the three counts of user_service, or the one count of DatabaseManager
Counts(migrated, skipped, total) ==
    IF last.op = "migrate_users_from_file"
    THEN PyTuple(<<Num(migrated), Num(skipped), Num(total)>>)
    ELSE PyInt(migrated)

\* the same function run once more on the database as it is now
RunAgain ==
    IF last.op = "migrate_users_from_file"
    THEN migrate_users_from_file(database, last.args.file)
    ELSE DatabaseManager_migrate_users_from_file(database, last.args.file)

\* C17: migrating a well-formed file of n distinct usernames into an empty users
\* table reports n migrated and none skipped and leaves exactly n users; migrating
\* it again reports none migrated and n skipped and leaves the table as it is;
\* neither run raises (DatabaseManager's method reports the migrated count alone)
C17_MigrationIdempotent ==
    ( /\ Migrating
      /\ last.args.file \in WellFormedFiles )
    => LET n == Len(last.args.file.lines)
       IN  /\ last.before.store[users] = {} =>
                /\ last.ret = Counts(n, 0, n)
                /\ Cardinality(store[users]) = n
                /\ UsersNow = Usernames(last.args.file)
                /\ RunAgain.ret = Counts(0, n, n)
                /\ RunAgain.db.store = store
           /\ UsersBefore = Usernames(last.args.file) =>
                /\ last.ret = Counts(0, n, n)
                /\ store = last.before.store
                /\ Cardinality(store[users]) = n

C17_Witness ==
    /\ last.op = "migrate_users_from_file"
    /\ last.args.file = File(<<UserLine("a"), UserLine("b")>>)
    /\ Cardinality(last.before.store[users]) = 2
    /\ last.ret = PyTuple(<<Num(0), Num(2), Num(2)>>)
    /\ Cardinality(store[users]) = 2

\* a line that is not blank and has fewer than three comma-separated fields
ShortLine(line) == strip(line) # <<>> /\ Len(split(strip(line), ",")) < 3

LongEnough(line) == ~ShortLine(line)

\* the file without its short lines, and the number of short lines it has
WithoutShortLines(file) == [file EXCEPT !.lines = SelectSeq(@, LongEnough)]

ShortLines(file) == Len(file.lines) - Len(WithoutShortLines(file).lines)

\* the same function run on the database as it was before the call
RunBefore(file) ==
    IF last.op = "migrate_users_from_file"
    THEN migrate_users_from_file(DatabaseBefore, file)
    ELSE DatabaseManager_migrate_users_from_file(DatabaseBefore, file)

\* the i-th count of a result of three counts
Count(ret, i) == ret.rows[1][i].n

\* the result is three counts, migrated + errors = total, and against the run on
\* the file without its short lines every short line adds one to the errors and
\* one to the total, while the migrated count and the users table are the same
CountsEveryLine ==
    LET file == last.args.file
        rest == RunBefore(WithoutShortLines(file))
    IN  /\ last.ret.kind = "tuple"
        /\ Len(last.ret.rows[1]) = 3
        /\ Count(last.ret, 1) + Count(last.ret, 2) = Count(last.ret, 3)
        /\ Count(last.ret, 1) = Count(rest.ret, 1)
        /\ Count(last.ret, 2) = Count(rest.ret, 2) + ShortLines(file)
        /\ Count(last.ret, 3) = Count(rest.ret, 3) + ShortLines(file)
        /\ store = rest.db.store

\* C18: a migration returns three counts, migrated, skipped-or-errored and total,
\* with migrated + skipped-or-errored = total; a line of fewer than three fields
\* adds one to the errors, inserts nothing and leaves the lines after it migrated
\* as they are without it
C18_ThreeCounts == (Migrating /\ last.args.file.exists) => CountsEveryLine

\* the statement of C18 for user_service.migrate_users_from_file alone
UserServiceThreeCounts ==
    (last.op = "migrate_users_from_file" /\ last.args.file.exists) => CountsEveryLine

\* a run of user_service.migrate_users_from_file over a short line and, after
\* it, a line that is migrated
UserServiceShortLine ==
    /\ last.op = "migrate_users_from_file"
    /\ last.args.file = File(<<  <<"b", ",", "h", "\n">>, UserLine("a")>>)
    /\ last.ret = PyTuple(<<Num(1), Num(1), Num(2)>>)
    /\ UsersNow = {Str(<<"a">>)}

\* C19: a migration from a path with no file returns zero for every count, raises
\* nothing, hands no statement to the store and leaves the database as it was
C19_MissingFileZeroCounts ==
    (Migrating /\ ~last.args.file.exists) =>
        /\ last.ret = Counts(0, 0, 0)
        /\ last.sql = <<>>
        /\ Untouched

C19_Witness ==
    /\ last.op = "migrate_users_from_file"
    /\ ~last.args.file.exists
    /\ last.ret = PyTuple(<<Num(0), Num(0), Num(0)>>)
    /\ Cardinality(store[users]) = 2

\* a line that is neither blank nor a comment
Record(line) == strip(line) # <<>> /\ Head(strip(line)) # "#"

\* the file without its blank lines and its comment lines
RecordsOnly(file) == [file EXCEPT !.lines = SelectSeq(@, Record)]

\* C20: blank lines and lines beginning with '#' are skipped, whatever commas they
\* hold: the migration returns the counts and leaves the users table that it
\* returns and leaves for the same file without those lines
C20_CommentAndBlankLinesSkipped ==
    (Migrating /\ last.args.file.exists) =>
        /\ last.ret = RunBefore(RecordsOnly(last.args.file)).ret
        /\ store = RunBefore(RecordsOnly(last.args.file)).db.store

\* the statement of C20 for DatabaseManager.migrate_users_from_file alone
ManagerSkipsCommentAndBlankLines ==
    (last.op = "DatabaseManager.migrate_users_from_file" /\ last.args.file.exists) =>
        /\ last.ret = RunBefore(RecordsOnly(last.args.file)).ret
        /\ store = RunBefore(RecordsOnly(last.args.file)).db.store

\* the statement of C20 for the blank lines given to user_service
UserServiceSkipsBlankLines ==
    ( /\ last.op = "migrate_users_from_file"
      /\ last.args.file.exists
      /\ \A i \in DOMAIN last.args.file.lines :
            strip(last.args.file.lines[i]) = <<>> \/ Record(last.args.file.lines[i]) )
    => /\ last.ret = RunBefore(RecordsOnly(last.args.file)).ret
       /\ store = RunBefore(RecordsOnly(last.args.file)).db.store

\* user_service.migrate_users_from_file has made a user of a comment line
CommentLineMigrated ==
    /\ last.op = "migrate_users_from_file"
    /\ Str(<<"#", "b">>) \in UsersNow \ UsersBefore

\* the keys of the dict given to the last call whose value is None, and the others
NoneKeys == {k \in DOMAIN last.args.data : last.args.data[k] = None}

GivenKeys == DOMAIN last.args.data \ NoneKeys

\* C27: update_record leaves every None-valued entry of its dict out of the
\* statement, so a column passed as None keeps its value in every row; the other
\* entries are applied to the row with the given id when the store accepts the
\* statement; a dict whose values are all None gives False and no statement
C27_NoneFieldsDropped ==
    ( /\ last.op = "update_record"
      /\ ValidIdentifier(last.args.table_name)
      /\ NoneKeys # {} )
    => LET t == last.args.table_name
       IN  /\ \A i \in DOMAIN last.sql : DOMAIN last.sql[i].query.set = GivenKeys
           /\ \A q \in last.before.store[t] : \E r \in store[t] :
                 /\ r[id] = q[id]
                 /\ \A k \in NoneKeys \cap ColumnNames(t) : r[k] = q[k]
           /\ (GivenKeys # {} /\ ~last.error) =>
                 \A r \in store[t] :
                     r[id] = last.args.record_id =>
                         \A k \in GivenKeys :
                             r[k] = Affinity(ColumnNamed(t, k).decl, last.args.data[k])
           /\ GivenKeys = {} =>
                 /\ last.ret = PyBool(FALSE)
                 /\ last.sql = <<>>
                 /\ Untouched

C27_Witness ==
    /\ last.op = "update_record"
    /\ last.args.data = UserDict(Absent, bob, hash7, None)
    /\ ~last.error
    /\ \E q \in last.before.store[users] :
          /\ q[id] = last.args.record_id
          /\ q[username] = alice
          /\ \E r \in store[users] :
                /\ r[id] = q[id]
                /\ r[username] = bob
                /\ r[password_hash] = Str(<<"7">>)
                /\ r[role] = analyst

\* the text with its ASCII letters in lower case
Fold(text) == [i \in 1..Len(text) |-> Lower(text[i])]

\* the text holds the substring, the case of letters aside
Contains(text, sub) ==
    \E i \in 0..(Len(text) - Len(sub)) :
        Fold(SubSeq(text, i + 1, i + Len(sub))) = Fold(sub)

\* the rows of the searched table, as it was before the call, whose value in the
\* searched column holds the searched text
Containing ==
    {r \in last.before.store[last.args.table_name] :
        /\ r[last.args.column].ty # "null"
        /\ Contains(AsText(r[last.args.column]), AsText(last.args.value))}

Searched ==
    /\ last.op = "search_records"
    /\ last.args.table_name \in DOMAIN tables
    /\ last.args.column \in ColumnNames(last.args.table_name)

\* C22: search_records returns exactly the rows whose value in the column holds the
\* searched text as a substring (the case of letters aside, as the store compares);
\* no character of the text, "%" and "_" included, lets any other row qualify
C22_SearchLiteralSubstring ==
    Searched =>
        /\ last.ret.kind = "list"
        /\ Range(last.ret.rows) = {AsTuple(last.args.table_name, r) : r \in Containing}
        /\ Len(last.ret.rows) = Cardinality(Containing)

\* the statement of C22 for the searches whose text has no "%" and no "_"
SearchWithoutWildcards ==
    ( /\ Searched
      /\ \A i \in DOMAIN last.args.value.s : last.args.value.s[i] \notin {"%", "_"} )
    => /\ Range(last.ret.rows) = {AsTuple(last.args.table_name, r) : r \in Containing}
       /\ Len(last.ret.rows) = Cardinality(Containing)

\* a search for "a%b" has returned the user "axb"
WildcardMatched ==
    /\ last.op = "search_records"
    /\ last.args.value = apb
    /\ \E i \in DOMAIN last.ret.rows :
          last.ret.rows[i][ColumnIndex(users, username)] = axb

\* the view the last call asked, run with other filters on the database as it was
ViewBefore(filters) ==
    IF last.op = "get_datasets" THEN get_datasets(DatabaseBefore, filters)
    ELSE get_it_tickets(DatabaseBefore, filters)

Viewing == last.op \in {"get_datasets", "get_it_tickets"}

\* C23: get_datasets and get_it_tickets put no filter key into the statement that
\* fails the identifier check: such a key is dropped, so the call returns what the
\* call without it returns, the rows that satisfy every other filter, latest
\* upload_date or date_created first
C23_ViewKeysValidated ==
    Viewing =>
        /\ \A i \in DOMAIN last.sql :
              \A k \in IdentifiersIn(last.sql[i].query) : ValidIdentifier(k)
        /\ last.ret = ViewBefore(ValidFilters(last.args.filters)).ret

\* the rows of the viewed table, as it was before the call, that satisfy every
\* filter
Filtered ==
    LET t == IF last.op = "get_datasets" THEN datasets_metadata ELSE it_tickets
    IN  {r \in last.before.store[t] :
            \A k \in DOMAIN last.args.filters : r[k] = last.args.filters[k]}

\* the statement of C23 for filters whose keys all pass the identifier check: the
\* rows that satisfy every filter, latest date first
ViewFiltersAndOrders ==
    ( /\ Viewing
      /\ \A k \in DOMAIN last.args.filters : ValidIdentifier(k) )
    => LET t == IF last.op = "get_datasets" THEN datasets_metadata ELSE it_tickets
           by == IF last.op = "get_datasets" THEN upload_date ELSE date_created
       IN  /\ Range(last.ret.rows) = {AsTuple(t, r) : r \in Filtered}
           /\ Len(last.ret.rows) = Cardinality(Filtered)
           /\ \A i \in 1..(Len(last.ret.rows) - 1) :
                 ~Before(last.ret.rows[i][ColumnIndex(t, by)],
                         last.ret.rows[i + 1][ColumnIndex(t, by)])

\* a key that is no identifier has reached the store and cost the caller the rows
\* the other filter selects
InvalidKeyInStatement ==
    /\ last.op = "get_it_tickets"
    /\ DOMAIN last.args.filters = {status, TwoWords}
    /\ last.error
    /\ last.ret = PyList(<<>>)
    /\ \E r \in store[it_tickets] : r[status] = Str(New)

\* C24: get_database_stats returns one entry for each of users, cyber_incidents,
\* datasets_metadata, it_tickets and user_activity and no other, each with the
\* number of rows its table holds, 0 for a table without rows
C24_StatsCountEveryTable ==
    last.op = "get_database_stats" =>
        /\ last.ret = PyDict([i \in 1..Len(StatsTables) |->
                                <<Str(StatsTables[i]), Num(Cardinality(store[StatsTables[i]]))>>])
        /\ Len(last.ret.rows) = 5
        /\ Untouched

C24_Witness ==
    /\ last.op = "get_database_stats"
    /\ Cardinality(store[users]) = 2
    /\ Cardinality(store[user_activity]) = 1
    /\ last.ret.rows[1] = <<Str(users), Num(2)>>
    /\ last.ret.rows[2] = <<Str(cyber_incidents), Num(0)>>
    /\ last.ret.rows[5] = <<Str(user_activity), Num(1)>>

\* the users rows the last call deleted
DeletedUsers == last.before.store[users] \ store[users]

\* C25: under PRAGMA foreign_keys = ON every user_activity row has a user_id that
\* is NULL or the id of a users row, in every reachable state; delete_record on
\* users removes no user_activity row and changes nothing of one but the user_id
\* that named the deleted user, which becomes NULL
C25_ActivityReferencesUsers ==
    /\ ForeignKeysHold(store)
    /\ (last.op = "delete_record" /\ last.args.table_name = users) =>
          /\ Cardinality(store[user_activity])
                = Cardinality(last.before.store[user_activity])
          /\ \A q \in last.before.store[user_activity] :
                \E r \in store[user_activity] :
                    /\ \A c \in ColumnNames(user_activity) \ {user_id} : r[c] = q[c]
                    /\ r[user_id] = IF \E d \in DeletedUsers : d[id] = q[user_id]
                                    THEN None ELSE q[user_id]

C25_Witness ==
    /\ last.op = "delete_record"
    /\ last.args.table_name = users
    /\ last.args.record_id = Num(1)
    /\ \E q \in last.before.store[user_activity] : q[user_id] = Num(1)
    /\ \E q \in last.before.store[user_activity] : q[user_id] = Num(2)
    /\ \A r \in store[users] : r[id] # Num(1)
    /\ \E r \in store[user_activity] : r[user_id] = None
    /\ \E r \in store[user_activity] : r[user_id] = Num(2)

\* C28: create_tables of database_manager.py returns True when every CREATE TABLE
\* statement was executed and False when one of them failed, and leaves the rows
\* of tables that exist as they are
C28_CreateTablesReportsFailure ==
    last.op = "create_tables" =>
        /\ last.ret = PyBool(~last.error)
        /\ Untouched

\* the statement of C28 for the rows: create_tables changes no row
CreateTablesKeepsRows ==
    last.op = "create_tables" => Untouched /\ Len(last.sql) = 4

\* create_tables has answered True although its statements failed
CreateTablesFailedSilently ==
    /\ last.op = "create_tables"
    /\ last.args.locked
    /\ last.error
    /\ last.ret = PyBool(TRUE)

(***************************************************************************)
(* Username uniqueness and the migrated count, with two instances          *)
(* migrating the same file at once.                                        *)
(***************************************************************************)
\* an instance whose existence check found no user and whose INSERT the store
\* then refused, while the other instance added a row
InsertRefused ==
    \E i, j \in Instances :
        /\ i # j
        /\ runs[i].inserts > runs[i].added
        /\ runs[j].added > 0

\* C21: in every reachable state no two users rows share a username, after any
\* sequence of insert_record, update_record, migration and demo-user seeding,
\* and under every interleaving of the existence checks and the inserts of two
\* instances that migrate the same file at the same time.
C21_UsernamesUnique ==
    \A r1, r2 \in store[users] : r1[username] = r2[username] => r1 = r2

\* both instances passed the check for a user, one INSERT was refused, the demo
\* users are seeded, and the users rows still have different usernames
C21_Witness ==
    /\ InsertRefused
    /\ \E r \in store[users] : r[username] = Str(john_analyst)
    /\ Cardinality({r[username] : r \in store[users]}) = Cardinality(store[users])

\* C26: the migrated count a migration run returns is the number of users rows
\* that run added to the store, also when two instances migrate the same file
\* at the same time, so that their counts add up to the rows added in total.
C26_MigratedCountIsRowsAdded ==
    \A i \in Instances :
        runs[i].at = "done" => Count(runs[i].ret, 1) = runs[i].added

\* a run that no other writer interleaves with counts the rows it added
SequentialCountIsRowsAdded ==
    (Migrating /\ last.args.file.exists /\ last.ret.kind # "raise") =>
        Count(last.ret, 1) =
            Cardinality(store[users]) - Cardinality(last.before.store[users])

\* both runs are over and report more migrated users than rows were added
RaceMiscounted ==
    /\ \A i \in Instances : runs[i].at = "done"
    /\ Count(runs[1].ret, 1) + Count(runs[2].ret, 1) > runs[1].added + runs[2].added

(***************************************************************************)
(* The session of app.py and the domain access of pages/dashboard.py.      *)
(***************************************************************************)
\* the pages only a logged-in user may see
Protected == {"home", "dashboard", "assistant", "security", "analytics", "settings"}

\* the demo users and their roles
DemoEntries ==
    {<<john_analyst, role_analyst>>, <<sara_scientist, role_scientist>>,
     <<mike_admin, role_admin>>, <<Joel_analyst, role_analyst>>,
     <<Sara_scientist, role_scientist>>, <<Daniel_admin, role_admin>>}

\* session_state.logged_in is true
LoggedIn == "logged_in" \in DOMAIN session_state /\ session_state.logged_in

LogoutEvent(event) == event.widget \in {"logout", "dashboard_logout"}

\* C29: for every sequence of login submissions, quick-login clicks, menu
\* navigation and logout events, a protected page is rendered only in a run in
\* which logged_in is true; whenever logged_in is true, username and user_role
\* are those of one demo user; and after Logout the next run starts with
\* logged_in false and renders the login page.
C29_SessionGuardsPages ==
    /\ app.rendered \in Protected => LoggedIn
    /\ LoggedIn => <<session_state.username, session_state.user_role>> \in DemoEntries
    /\ LogoutEvent(app.event) => app.rerun /\ ~LoggedIn
    /\ LogoutEvent(app.previous) => ~LoggedIn /\ app.rendered = "login"

\* a user has logged in, has logged out, and the run after the Logout shows
\* the login page
C29_Witness ==
    /\ app.previous.widget = "logout"
    /\ app.rendered = "login"
    /\ ~LoggedIn

\* the role of the session, and the access the dashboard computed for it
AccessRole == IF "user_role" \in DOMAIN session_state THEN session_state.user_role ELSE <<>>
Access == [i \in 1..3 |-> last.ret.rows[i][2]]

\* the role, case aside, holds one of the words, or is admin: a rule matches
RuleMatches ==
    \/ \E w \in {cyber, role_analyst, data_word, role_scientist, it, role_admin,
                  operations} : Contains(AccessRole, w)

\* C30: get_user_domain_access grants each demo role exactly its own domain
\* (cyber_analyst cybersecurity, data_scientist data_science, it_administrator
\* it_operations, admin all three), grants every role at least one domain, and
\* grants all three domains to a role that matches no rule.
C30_DomainAccess ==
    last.op = "get_user_domain_access" =>
        /\ AccessRole = cyber_analyst => Access = <<TRUE, FALSE, FALSE>>
        /\ AccessRole = data_scientist => Access = <<FALSE, TRUE, FALSE>>
        /\ AccessRole = it_administrator => Access = <<FALSE, FALSE, TRUE>>
        /\ AccessRole = role_admin => Access = <<TRUE, TRUE, TRUE>>
        /\ \E i \in 1..3 : Access[i]
        /\ ~RuleMatches => Access = <<TRUE, TRUE, TRUE>>
        /\ [i \in 1..3 |-> last.ret.rows[i][1]] = Domains

\* the access of a role that matches no rule has been computed
C30_Witness ==
    /\ last.op = "get_user_domain_access"
    /\ ~RuleMatches
    /\ AccessRole # <<>>
    /\ Access = <<TRUE, TRUE, TRUE>>

====
